---- MODULE Spec2Model ----
(***************************************************************************)
(* A model of the scriptgraph resolver: the static Scanner, the Planner,   *)
(* Reader, Mapper and Writer roles, the AgentRunner that drives them and   *)
(* the exporter that writes predicted_graph.yaml.                          *)
(*                                                                         *)
(* Text is modelled as a sequence of one-character strings, so that case   *)
(* folding, slash normalisation and variable substitution are computed,    *)
(* not assumed.  A script file is a sequence of lines; a line is kept in   *)
(* the parsed shape the regular expressions of the parsers take apart      *)
(* (prefix and target of a command, name and value of an assignment, the   *)
(* callee and arguments of a Python call).                                 *)
(***************************************************************************)
EXTENDS Integers, Sequences, FiniteSets, TLC

(***************************************************************************)
(* Characters and strings                                                  *)
(***************************************************************************)
UpperSeq ==
    <<"A","B","C","D","E","F","G","H","I","J","K","L","M",
      "N","O","P","Q","R","S","T","U","V","W","X","Y","Z">>

LowerSeq ==
    <<"a","b","c","d","e","f","g","h","i","j","k","l","m",
      "n","o","p","q","r","s","t","u","v","w","x","y","z">>

DigitSeq == <<"0","1","2","3","4","5","6","7","8","9">>

\* The characters of the model in ASCII order (the order Python compares str by).
Chars ==
    <<"\n"," ","!","\"","#","$","%","&","'","(",")","+","-",".","/">> \o DigitSeq
      \o <<";","=">> \o UpperSeq \o <<"\\","_">> \o LowerSeq \o <<"{","}">>

CharSet == {Chars[i] : i \in 1..Len(Chars)}

Ord[c \in CharSet] == CHOOSE i \in 1..Len(Chars) : Chars[i] = c

LowerChar[c \in CharSet] ==
    IF \E i \in 1..26 : UpperSeq[i] = c
    THEN LowerSeq[CHOOSE i \in 1..26 : UpperSeq[i] = c]
    ELSE c

\* str.lower()
Lower(s) == [i \in 1..Len(s) |-> LowerChar[s[i]]]

UpperChar[c \in CharSet] ==
    IF \E i \in 1..26 : LowerSeq[i] = c
    THEN UpperSeq[CHOOSE i \in 1..26 : LowerSeq[i] = c]
    ELSE c

\* str.upper()
Upper(s) == [i \in 1..Len(s) |-> UpperChar[s[i]]]

IsUpperCh(c) == \E i \in 1..26 : UpperSeq[i] = c
IsLowerCh(c) == \E i \in 1..26 : LowerSeq[i] = c
IsDigitCh(c) == \E i \in 1..10 : DigitSeq[i] = c
\* \s of the regular expressions and the characters str.strip() removes
WS == {" ", "\n"}
IsSpaceCh(c) == c \in WS
\* \w of the regular expressions
IsWordCh(c) == IsUpperCh(c) \/ IsLowerCh(c) \/ IsDigitCh(c) \/ c = "_"
\* [\w./-]
IsPathCh(c) == IsWordCh(c) \/ c \in {".", "/", "-"}
\* [A-Za-z_]
IsNameStart(c) == IsUpperCh(c) \/ IsLowerCh(c) \/ c = "_"

Drop(s, n) == IF n >= Len(s) THEN <<>> ELSE SubSeq(s, n + 1, Len(s))
Take(s, n) == IF n >= Len(s) THEN s ELSE SubSeq(s, 1, n)

\* str.startswith / str.endswith
StartsWith(s, p) == Len(p) <= Len(s) /\ SubSeq(s, 1, Len(p)) = p
EndsWith(s, p) == Len(p) <= Len(s) /\ SubSeq(s, Len(s) - Len(p) + 1, Len(s)) = p

\* `p in s` for strings
Contains(s, p) == \E i \in 0..(Len(s) - Len(p)) : SubSeq(s, i + 1, i + Len(p)) = p

\* str.replace(pat, rep): every occurrence, left to right, without overlap.
RECURSIVE Replace(_, _, _)
Replace(s, pat, rep) ==
    IF Len(pat) = 0 \/ Len(s) < Len(pat) THEN s
    ELSE IF StartsWith(s, pat) THEN rep \o Replace(Drop(s, Len(pat)), pat, rep)
    ELSE <<s[1]>> \o Replace(Drop(s, 1), pat, rep)

\* re.sub(re.escape(pat), rep, s, flags=re.I)
RECURSIVE ReplaceI(_, _, _)
ReplaceI(s, pat, rep) ==
    IF Len(pat) = 0 \/ Len(s) < Len(pat) THEN s
    ELSE IF Lower(SubSeq(s, 1, Len(pat))) = Lower(pat)
         THEN rep \o ReplaceI(Drop(s, Len(pat)), pat, rep)
    ELSE <<s[1]>> \o ReplaceI(Drop(s, 1), pat, rep)

\* str.strip(chars) for a set of characters
RECURSIVE LStripSet(_, _)
LStripSet(s, cs) ==
    IF s # <<>> /\ s[1] \in cs THEN LStripSet(Drop(s, 1), cs) ELSE s

RECURSIVE RStripSet(_, _)
RStripSet(s, cs) ==
    IF s # <<>> /\ s[Len(s)] \in cs THEN RStripSet(Take(s, Len(s) - 1), cs) ELSE s

StripSet(s, cs) == RStripSet(LStripSet(s, cs), cs)

\* str.strip()
Strip(s) == StripSet(s, WS)

\* .strip() and then the strip of double and of single quotes
StripQuotes(s) == StripSet(StripSet(Strip(s), {"\""}), {"'"})

\* while "//" in p: p = p.replace("//", "/")
RECURSIVE CollapseSlashes(_)
CollapseSlashes(p) ==
    IF Contains(p, <<"/","/">>)
    THEN CollapseSlashes(Replace(p, <<"/","/">>, <<"/">>))
    ELSE p

\* Lexicographic order of str by code point.
RECURSIVE LexLess(_, _)
LexLess(a, b) ==
    IF b = <<>> THEN FALSE
    ELSE IF a = <<>> THEN TRUE
    ELSE IF a[1] # b[1] THEN Ord[a[1]] < Ord[b[1]]
    ELSE LexLess(Drop(a, 1), Drop(b, 1))

\* sorted(set_of_str)
RECURSIVE SortedStrs(_)
SortedStrs(S) ==
    IF S = {} THEN <<>>
    ELSE LET m == CHOOSE x \in S : \A y \in S \ {x} : LexLess(x, y)
         IN <<m>> \o SortedStrs(S \ {m})

Range(s) == {s[i] : i \in 1..Len(s)}

\* "/".join(parts)
RECURSIVE JoinSlash(_)
JoinSlash(parts) ==
    IF parts = <<>> THEN <<>>
    ELSE IF Len(parts) = 1 THEN parts[1]
    ELSE parts[1] \o <<"/">> \o JoinSlash(Drop(parts, 1))

\* " ".join(parts)
RECURSIVE JoinSpace(_)
JoinSpace(parts) ==
    IF parts = <<>> THEN <<>>
    ELSE IF Len(parts) = 1 THEN parts[1]
    ELSE parts[1] \o <<" ">> \o JoinSpace(Drop(parts, 1))

\* str.split(sep) for a one-character separator
RECURSIVE SplitOn(_, _)
SplitOn(s, c) ==
    IF ~(\E i \in 1..Len(s) : s[i] = c) THEN <<s>>
    ELSE LET k == CHOOSE i \in 1..Len(s) : s[i] = c /\ \A j \in 1..(i - 1) : s[j] # c
         IN <<Take(s, k - 1)>> \o SplitOn(Drop(s, k), c)

(***************************************************************************)
(* Path normalisation: utils.py, agents.py, scanner.py, exporter.py        *)
(***************************************************************************)
\* if p.startswith("./"): p = p[2:]
StripDotSlash(p) == IF StartsWith(p, <<".", "/">>) THEN Drop(p, 2) ELSE p

\* utils.canon
canon(p) ==
    CollapseSlashes(Replace(StripDotSlash(Replace(p, <<"\\">>, <<"/">>)),
                            <<"/", ".", "/">>, <<"/">>))

\* agents._norm_path
_norm_path(p) ==
    CollapseSlashes(StripDotSlash(Replace(StripQuotes(p), <<"\\">>, <<"/">>)))

\* s.lower() if windows else s
CaseOf(s, windows) == IF windows THEN Lower(s) ELSE s

\* Scanner._canon_rel_str
_canon_rel_str(s, windows) ==
    CaseOf(CollapseSlashes(StripDotSlash(Replace(s, <<"\\">>, <<"/">>))), windows)

\* exporter._canon_rel.  An absolute path is made relative to the bundle root
\* only when it lies under the root; the model's absolute paths never do, so
\* relative_to raises and the path is kept.
_canon_rel(p, windows) ==
    CaseOf(StripDotSlash(Replace(Strip(p), <<"\\">>, <<"/">>)), windows)

\* Path.resolve() of root/p, component by component: "" and "." are dropped,
\* ".." pops; popping above the root leaves the bundle.
RECURSIVE ResolveParts(_, _, _)
ResolveParts(parts, acc, escaped) ==
    IF parts = <<>> THEN [parts |-> acc, escaped |-> escaped]
    ELSE LET h == parts[1]
             t == Drop(parts, 1)
         IN IF h = <<>> \/ h = <<".">> THEN ResolveParts(t, acc, escaped)
            ELSE IF h = <<".",".">>
                 THEN IF acc = <<>> THEN ResolveParts(t, acc, TRUE)
                      ELSE ResolveParts(t, Take(acc, Len(acc) - 1), escaped)
            ELSE ResolveParts(t, Append(acc, h), escaped)

\* The path of the resolved parts: relative to the root, or absolute (written
\* with a leading "/") when the path is absolute or escapes the root.
ResolvedPath(abs, r) ==
    IF abs \/ r.escaped THEN <<"/">> \o JoinSlash(r.parts) ELSE JoinSlash(r.parts)

\* utils.norm_path
norm_path(p) ==
    Replace(ResolvedPath(StartsWith(p, <<"/">>), ResolveParts(SplitOn(p, "/"), <<>>, FALSE)),
            <<"\\">>, <<"/">>)

\* os.path.dirname
dirname(p) ==
    IF ~(\E i \in 1..Len(p) : p[i] = "/") THEN <<>>
    ELSE LET k == CHOOSE i \in 1..Len(p) : p[i] = "/" /\ \A j \in (i + 1)..Len(p) : p[j] # "/"
             head == Take(p, k - 1)
         IN IF head = <<>> THEN <<"/">> ELSE head

\* os.path.join(a, b)
path_join(a, b) ==
    IF StartsWith(b, <<"/">>) THEN b
    ELSE IF a = <<>> \/ EndsWith(a, <<"/">>) THEN a \o b
    ELSE a \o <<"/">> \o b


(***************************************************************************)
(* Words of the scripts and of the code                                    *)
(***************************************************************************)
s_sh == <<".","s","h">>
s_bash == <<".","b","a","s","h">>
s_ksh == <<".","k","s","h">>
s_bat == <<".","b","a","t">>
s_cmd == <<".","c","m","d">>
s_ps1 == <<".","p","s","1">>
s_pl == <<".","p","l">>
s_py == <<".","p","y">>

w_bash == <<"b","a","s","h"," ">>
w_sh == <<"s","h"," ">>
w_ksh == <<"k","s","h"," ">>
w_dot == <<"."," ">>
w_source == <<"s","o","u","r","c","e"," ">>
w_amp == <<"&"," ">>
w_call == <<"c","a","l","l"," ">>
w_start == <<"s","t","a","r","t"," ">>
w_python == <<"p","y","t","h","o","n"," ">>
w_python3 == <<"p","y","t","h","o","n","3"," ">>
w_perl == <<"p","e","r","l"," ">>
w_chmod == <<"c","h","m","o","d"," ","+","x"," ">>
w_eval == <<"e","v","a","l">>

p_run_sh == <<"r","u","n",".","s","h">>
p_u_x_sh == <<"u","/","x",".","s","h">>
p_Run_sh == <<"R","u","n",".","s","h">>
p_U_X_sh == <<"U","/","X",".","s","h">>
p_a_run_sh == <<"a","/","r","u","n",".","s","h">>
p_b_run_sh == <<"b","/","r","u","n",".","s","h">>
p_c_run_sh == <<"c","/","r","u","n",".","s","h">>
p_t_x_sh == <<"t","/","x",".","s","h">>
p_p_py == <<"p",".","p","y">>
p_a_sh == <<"a",".","s","h">>
p_z_sh == <<"z",".","s","h">>
p_missing_sh == <<"m","i","s","s","i","n","g",".","s","h">>
p_nope_sh == <<"n","o","p","e",".","s","h">>
t_var_D_x_sh == <<"$","D","/","x",".","s","h">>
t_var_D_X_sh == <<"$","D","/","X",".","s","h">>
t_var_Q_dots_y_sh == <<"$","Q","/",".","/",".","/","y",".","s","h">>
t_dot_u_x_sh == <<".","/","u","/","x",".","s","h">>
c_bash_u_x_sh == <<"b","a","s","h"," ","u","/","x",".","s","h">>
n_D == <<"D">>
n_Q == <<"Q">>
v_u == <<"u">>
v_U == <<"U">>
v_t == <<"t">>
v_u_space_x == <<"u"," ","x">>
p_b_sh == <<"b",".","s","h">>
p_run_cmd == <<"r","u","n",".","c","m","d">>
p_u_x_cmd == <<"u","/","x",".","c","m","d">>
p_run_ps1 == <<"r","u","n",".","p","s","1">>
p_a_x_ps1 == <<"a","/","x",".","p","s","1">>
p_b_x_ps1 == <<"b","/","x",".","p","s","1">>
t_var_Q_x_sh == <<"$","Q","/","x",".","s","h">>
t_pct_D_x_cmd == <<"%","D","%","\\","x",".","c","m","d">>
t_var_D_x_ps1 == <<"$","D","/","x",".","p","s","1">>
w_set == <<"s","e","t"," ">>
w_ps_D == <<"$","D"," ","="," ">>
v_quoted_a == <<"'","a","'">>
v_join_b == <<"J","o","i","n","-","P","a","t","h"," ","$","P","S","S","c","r","i","p","t","R","o","o","t"," ","b">>
v_D_is_u == <<"D","=","u">>
n_E == <<"E">>

(***************************************************************************)
(* The bundles.  A file is [path, readable, lines]; a line is one of       *)
(*   [t |-> "assign", a |-> name, b |-> value]      NAME=value             *)
(*   [t |-> "cmd",    a |-> prefix, b |-> target]   prefix ++ target       *)
(*   [t |-> "py",     a |-> callee, b |-> args]     callee(args) in a .py  *)
(* A line of a CMD or PowerShell file is a "cmd" line, of any text.        *)
(* The files of a bundle are listed in the order rglob yields them.  A     *)
(* line whose target is not consumed by a call-site match is the last of   *)
(* its file, so that no match of the Reader runs on into the next line.    *)
(* meta is the meta.json of the bundle: missing, text that is no JSON, JSON *)
(* that is no object, or an object whose "platform" is a string ("" when   *)
(* the object has no such key).                                            *)
(***************************************************************************)
NoMeta == [kind |-> "missing", platform |-> <<>>]
MetaText == [kind |-> "text", platform |-> <<>>]
MetaList == [kind |-> "list", platform |-> <<>>]
MetaPlatform(p) == [kind |-> "obj", platform |-> p]
m_windows == <<"w","i","n","d","o","w","s">>
m_Windows == <<"W","i","n","d","o","w","s">>
m_linux == <<"l","i","n","u","x">>

\* A platform test that compares the platform as written.
IsWindowsAsWritten(meta) == meta.kind = "obj" /\ meta.platform = m_windows

\* Scanner._is_windows_bundle: json.loads and meta.get inside a try; any
\* exception gives False.
_is_windows_bundle(meta) == meta.kind = "obj" /\ Lower(meta.platform) = m_windows

Assign(n, v) == [t |-> "assign", a |-> n, b |-> v]
Cmd(pre, tgt) == [t |-> "cmd", a |-> pre, b |-> tgt]
PyCall(f, args) == [t |-> "py", a |-> f, b |-> args]
PyStr(v) == [k |-> "str", v |-> v]
File(p, lines) == [path |-> p, readable |-> TRUE, lines |-> lines]
Unreadable(p, lines) == [path |-> p, readable |-> FALSE, lines |-> lines]

\* Duplicate, missing and spurious static calls next to a call through a
\* variable nothing binds; seeds.txt names u/x.sh.
BundleDirect ==
    [meta |-> NoMeta, seeds |-> << t_dot_u_x_sh >>,
     files |-> << File(p_run_sh, << Cmd(w_bash, t_var_Q_dots_y_sh),
                                    Cmd(w_bash, p_u_x_sh),
                                    Cmd(w_bash, p_u_x_sh),
                                    Cmd(w_bash, p_missing_sh),
                                    Cmd(w_chmod, p_u_x_sh) >>),
                  File(p_p_py, << PyCall("system", << PyStr(c_bash_u_x_sh) >>) >>),
                  File(p_u_x_sh, <<>>) >>]

\* A Python file whose call has no positional argument, and a file that
\* cannot be read.
BundlePython ==
    [meta |-> NoMeta, seeds |-> <<>>,
     files |-> << File(p_a_sh, << Cmd(w_bash, p_u_x_sh) >>),
                  Unreadable(p_z_sh, << Cmd(w_bash, p_u_x_sh) >>),
                  File(p_p_py, << PyCall("run", <<>>) >>),
                  File(p_u_x_sh, <<>>) >>]

\* A Windows bundle with mixed-case names.
BundleWindows ==
    [meta |-> MetaPlatform(m_windows), seeds |-> <<>>,
     files |-> << File(p_Run_sh, << Assign(n_D, v_U),
                                    Cmd(w_bash, t_var_D_X_sh),
                                    Cmd(w_bash, p_U_X_sh) >>),
                  File(p_U_X_sh, <<>>) >>]

\* Three entry points, two of them with a variable call, and a literal call
\* the shell parser does not see.
BundleEntries ==
    [meta |-> NoMeta, seeds |-> <<>>,
     files |-> << File(p_a_run_sh, << Assign(n_D, v_t), Cmd(w_bash, t_var_D_x_sh) >>),
                  File(p_b_run_sh, << Assign(n_D, v_t), Cmd(w_bash, t_var_D_x_sh) >>),
                  File(p_c_run_sh, <<>>),
                  File(p_p_py, <<>>),
                  File(p_t_x_sh, << Cmd(w_python, p_p_py) >>) >>]

\* A Windows bundle whose variable value differs in case from the directory.
BundleWindowsCase ==
    [meta |-> MetaPlatform(m_windows), seeds |-> <<>>,
     files |-> << File(p_Run_sh, << Assign(n_D, v_u),
                                    Cmd(w_bash, t_var_D_x_sh) >>),
                  File(p_U_X_sh, <<>>) >>]

\* Mixed-case names and no meta.json.
BundleNoMeta ==
    [meta |-> NoMeta, seeds |-> <<>>,
     files |-> << File(p_Run_sh, << Assign(n_D, v_U),
                                    Cmd(w_bash, t_var_D_X_sh),
                                    Cmd(w_bash, p_U_X_sh) >>),
                  File(p_U_X_sh, <<>>) >>]

\* Mixed-case names and a meta.json whose platform is written "Windows"; the
\* value of the variable differs in case from the directory.
BundleMetaCaps ==
    [meta |-> MetaPlatform(m_Windows), seeds |-> <<>>,
     files |-> << File(p_Run_sh, << Assign(n_D, v_u),
                                    Cmd(w_bash, t_var_D_x_sh) >>),
                  File(p_U_X_sh, <<>>) >>]

\* A CMD file that sets a variable after the call that uses it.
BundleCmd ==
    [meta |-> MetaList, seeds |-> <<>>,
     files |-> << File(p_run_cmd, << Cmd(w_call, t_pct_D_x_cmd),
                                     Cmd(w_set, v_D_is_u) >>),
                  File(p_u_x_cmd, <<>>) >>]

\* A PowerShell file that assigns a variable a literal and then a Join-Path.
BundlePs ==
    [meta |-> MetaPlatform(m_linux), seeds |-> <<>>,
     files |-> << File(p_run_ps1, << Cmd(w_ps_D, v_quoted_a),
                                     Cmd(w_ps_D, v_join_b),
                                     Cmd(w_amp, t_var_D_x_ps1) >>),
                  File(p_a_x_ps1, <<>>),
                  File(p_b_x_ps1, <<>>) >>]

\* Shell files that source each other: run.sh sources a.sh and b.sh, which
\* bind the same name, and a.sh sources run.sh; seeds.txt names run.sh.
BundleSource ==
    [meta |-> MetaText, seeds |-> << p_run_sh >>,
     files |-> << File(p_run_sh, << Assign(n_D, v_u),
                                    Cmd(w_dot, p_a_sh),
                                    Cmd(w_dot, p_b_sh),
                                    Cmd(w_bash, t_var_Q_x_sh) >>),
                  File(p_a_sh, << Assign(n_D, v_t),
                                  Assign(n_Q, v_u),
                                  Cmd(w_dot, p_run_sh) >>),
                  File(p_b_sh, << Assign(n_Q, v_t),
                                  Assign(n_E, v_t) >>),
                  File(p_u_x_sh, <<>>),
                  File(p_t_x_sh, <<>>) >>]

\* Two dynamic call sites of one file that resolve to the same target.
BundleTwoSites ==
    [meta |-> NoMeta, seeds |-> <<>>,
     files |-> << File(p_run_sh, << Assign(n_D, v_u),
                                    Cmd(w_bash, t_var_D_x_sh),
                                    Cmd(w_sh, t_var_D_x_sh) >>),
                  File(p_u_x_sh, <<>>) >>]

\* One call of a file the bundle does not hold.
BundleMissing ==
    [meta |-> NoMeta, seeds |-> <<>>,
     files |-> << File(p_run_sh, << Cmd(w_bash, p_missing_sh) >>) >>]

MainCatalogue ==
    << BundleDirect, BundlePython, BundleWindows, BundleEntries,
       BundleWindowsCase, BundleDirect >>

\* The bundles of the platform cases: the meta.json variants, and a bundle of
\* each language the Reader reads.
PlatformCatalogue ==
    << BundleNoMeta, BundleMetaCaps, BundleCmd, BundlePs, BundleSource,
       BundleTwoSites, BundleMissing, BundleNoMeta >>

BundleCatalogue == MainCatalogue \o PlatformCatalogue

\* The model runs on the first NumBundles bundles of the catalogue.
NumBundles == 4

\* The platform runs are on the first NumPlatformBundles bundles of the
\* platform catalogue.
NumPlatformBundles == 7
PlatformBundles ==
    {Len(MainCatalogue) + i : i \in 1..NumPlatformBundles}

(***************************************************************************)
(* graph.py                                                                *)
(***************************************************************************)
\* Edge: confidence in thousandths, reason "" for None.
Edge(src, dst, kind, command, dynamic, resolved, confidence, reason) ==
    [src |-> src, dst |-> dst, kind |-> kind, command |-> command,
     dynamic |-> dynamic, resolved |-> resolved, confidence |-> confidence,
     reason |-> reason]

\* Graph()
EmptyGraph == [nodes |-> {}, edges |-> <<>>]

\* Graph.add_node
add_node(g, path) == [g EXCEPT !.nodes = @ \cup {canon(path)}]

\* self.edges.append(e); self.add_node(e.src); self.add_node(e.dst)
AppendEdge(g, e) == add_node(add_node([g EXCEPT !.edges = Append(@, e)], e.src), e.dst)

\* Graph.add_edge: the edge keeps canon(src), canon(dst); add_node applies
\* canon to them once more.
add_edge(g, e) == AppendEdge(g, [e EXCEPT !.src = canon(e.src), !.dst = canon(e.dst)])

(***************************************************************************)
(* parsers/shell.py and parsers/python_cli.py                              *)
(***************************************************************************)
\* The text of a line.
LineText(l) == IF l.t = "assign" THEN l.a \o <<"=">> \o l.b ELSE l.a \o l.b

\* utils.strip_comments
strip_comments(text) ==
    LET t == LStripSet(text, {" "})
    IN IF StartsWith(t, <<"#">>) \/ StartsWith(t, <<"/","/">>) THEN <<>> ELSE text

\* Length of the longest prefix of s that is a name [A-Za-z_][A-Za-z0-9_]*.
RECURSIVE WordRun(_)
WordRun(s) == IF s # <<>> /\ IsWordCh(s[1]) THEN 1 + WordRun(Drop(s, 1)) ELSE 0

NameLen(s) == IF s # <<>> /\ IsNameStart(s[1]) THEN WordRun(s) ELSE 0

\* VAR_HINT.search(text): $NAME or ${NAME}
VAR_HINT(text) ==
    \E i \in 1..Len(text) :
        /\ text[i] = "$"
        /\ \/ NameLen(Drop(text, i)) > 0
           \/ (i < Len(text) /\ text[i + 1] = "{" /\ NameLen(Drop(text, i + 1)) > 0)

ShExts == {s_sh, s_bash, s_ksh}

\* [\w./-]+\.(sh|bash|ksh) matching the whole of s
IsLitPath(s) ==
    /\ \A i \in 1..Len(s) : IsPathCh(s[i])
    /\ \E x \in ShExts : EndsWith(s, x) /\ Len(s) > Len(x)

\* Length of a leading $NAME/ or ${NAME}/, 0 if there is none.
VarPrefixLen(s) ==
    IF ~StartsWith(s, <<"$">>) THEN 0
    ELSE LET brace == Len(s) > 1 /\ s[2] = "{"
             from == IF brace THEN 2 ELSE 1
             n == NameLen(Drop(s, from))
             close == brace /\ Len(s) > from + n /\ s[from + n + 1] = "}"
             stop == from + n + (IF close THEN 1 ELSE 0)
         IN IF n > 0 /\ Len(s) > stop /\ s[stop + 1] = "/" THEN stop + 1 ELSE 0

\* path1 / path2 of CALL_RE on the target after an interpreter or a dot
IsVarPath(s) == IsLitPath(Drop(s, VarPrefixLen(s)))

\* path3 of CALL_RE: the leftmost match in s, which ends with s.
PathTail(s) ==
    LET k == CHOOSE i \in 1..(Len(s) + 1) :
                 /\ \A j \in i..Len(s) : IsPathCh(s[j])
                 /\ (i = 1 \/ ~IsPathCh(s[i - 1]))
    IN Drop(s, k - 1)

\* The paths CALL_RE finds in a line: path1 after an interpreter, path2 after
\* a dot or source, else path3
CallPaths(l) ==
    IF l.t = "cmd" /\ l.a \in {w_bash, w_sh, w_ksh, w_dot, w_source} /\ IsVarPath(l.b)
    THEN <<l.b>>
    ELSE IF IsLitPath(PathTail(l.b)) THEN <<PathTail(l.b)>> ELSE <<>>

\* shell._destinations: a path whose first component holds "=" is an assignment
_destinations(l) ==
    SelectSeq(CallPaths(l), LAMBDA p : ~Contains(SplitOn(p, "/")[1], <<"=">>))

\* The edges of one line, given its text and whether it is dynamic
ShellEdges(src, line, dynamic, kind, ds) ==
    IF Strip(line) = <<>> THEN <<>>
    ELSE [i \in 1..Len(ds) |->
             Edge(src, ds[i], kind, line, dynamic, ~dynamic,
                  IF dynamic THEN 500 ELSE 900, "")]

\* kind of a shell line
ShellKind(lead) ==
    IF StartsWith(lead, w_dot) \/ StartsWith(lead, w_source) THEN "source" ELSE "call"

ShellDynamic(line) ==
    VAR_HINT(line) \/ Contains(line, <<"$", "(">>) \/ Contains(line, w_eval)

ShellLine(src, l, line) ==
    ShellEdges(src, line, ShellDynamic(line), ShellKind(LStripSet(line, {" "})),
               _destinations(l))

\* shell.parse_shell for one line
parse_shell_line(src, l) == ShellLine(src, l, strip_comments(LineText(l)))

RECURSIVE parse_shell(_, _)
parse_shell(src, lines) ==
    IF lines = <<>> THEN <<>>
    ELSE parse_shell_line(src, lines[1]) \o parse_shell(src, Drop(lines, 1))

\* str.split(): the whitespace-separated tokens
Tokens(s) == SelectSeq(SplitOn(s, " "), LAMBDA t : t # <<>>)

\* python_cli.SHELL_EXTS, in one iteration order of the set
SHELL_EXTS == <<s_sh, s_bash, s_ksh, s_cmd, s_bat, s_ps1>>

\* CallVisitor.visit_Call for one call node: the command it records, or the
\* exception it raises.  arg0 is bound only when the call has arguments.
visit_Call(node) ==
    IF node.a \notin {"run", "Popen", "call", "system"}
    THEN [raised |-> FALSE, cmds |-> <<>>]
    ELSE IF node.b = <<>>
    THEN [raised |-> TRUE, cmds |-> <<>>]
    ELSE LET arg0 == node.b[1]
         IN IF arg0.k = "list" /\ arg0.v # <<>> /\ arg0.v[1].k # "name"
            THEN IF \E i \in 1..Len(arg0.v) : arg0.v[i].k = "num"
                 THEN [raised |-> TRUE, cmds |-> <<>>]
                 ELSE LET consts == SelectSeq(arg0.v, LAMBDA e : e.k = "str")
                      IN [raised |-> FALSE,
                          cmds |-> <<JoinSpace([i \in 1..Len(consts) |-> consts[i].v])>>]
            ELSE IF arg0.k = "str"
            THEN [raised |-> FALSE, cmds |-> <<arg0.v>>]
            ELSE [raised |-> FALSE, cmds |-> <<>>]

\* One edge for each token of the command that ends with the extension
ExtEdges(src, cmd, parts) ==
    [i \in 1..Len(parts) |-> Edge(src, parts[i], "call", cmd, FALSE, TRUE, 800, "")]

\* The edges parse_python_cli makes of one recorded command.
RECURSIVE PyCmdEdges(_, _, _)
PyCmdEdges(src, cmd, exts) ==
    IF exts = <<>> THEN <<>>
    ELSE ExtEdges(src, cmd,
                  IF Contains(cmd, exts[1])
                  THEN SelectSeq(Tokens(cmd), LAMBDA t : EndsWith(t, exts[1]))
                  ELSE <<>>)
         \o PyCmdEdges(src, cmd, Drop(exts, 1))

\* The edges of the commands of one call followed by those of the later calls;
\* an exception of either leaves parse_python_cli.
PyEdges(src, v, rest) ==
    IF v.raised \/ rest.raised THEN [raised |-> TRUE, edges |-> <<>>]
    ELSE [raised |-> FALSE,
          edges |-> (IF v.cmds = <<>> THEN <<>>
                     ELSE PyCmdEdges(src, v.cmds[1], SHELL_EXTS)) \o rest.edges]

\* python_cli.parse_python_cli
RECURSIVE parse_python_cli(_, _)
parse_python_cli(src, lines) ==
    IF lines = <<>> THEN [raised |-> FALSE, edges |-> <<>>]
    ELSE PyEdges(src, visit_Call(lines[1]), parse_python_cli(src, Drop(lines, 1)))

(***************************************************************************)
(* scanner.py                                                              *)
(***************************************************************************)
ScriptExts == {s_sh, s_bash, s_ksh, s_bat, s_cmd, s_ps1, s_pl, s_py}

\* utils.is_executable_script with every script suffix included
is_executable_script(path) == \E x \in ScriptExts : EndsWith(Lower(path), x)

\* Length of the longest prefix of s inside cs.
SpanIn(s, cs) == Len(s) - Len(LStripSet(s, cs))

\* 1 when the i-th character of r is a quote
QuoteAt(r, i) == IF Len(r) >= i /\ r[i] \in {"\"", "'"} THEN 1 ELSE 0

\* The word w, in either case, at the head of s
HeadIs(s, w) == Len(s) >= Len(w) /\ Lower(Take(s, Len(w))) = w

\* The lines of a file as text.
FileLines(f) == [i \in 1..Len(f.lines) |-> LineText(f.lines[i])]

(***************************************************************************)
(* parsers/batch.py and parsers/powershell.py                              *)
(***************************************************************************)
MaxOf(S) == CHOOSE i \in S : \A j \in S : i >= j

\* [\w./\\-]+ at the head of s
PathRun(s) == Take(s, Len(s) - Len(LStripSet(s, {c \in CharSet : IsPathCh(c) \/ c = "\\"})))

\* [\w./\\-]+\.(ext) at the head of s: the length of the match, which is the
\* longest, or 0; fold tells whether the case is ignored
ScriptLen(s, exts, fold) ==
    MaxOf({0} \cup {k \in 1..Len(PathRun(s)) :
                       \E x \in exts :
                          /\ k > Len(x)
                          /\ EndsWith(IF fold THEN Lower(Take(s, k)) ELSE Take(s, k), x)})

\* (?:call\s+)? of batch.CALL_RE at the head of s: the characters it takes
BatPrefix(s) ==
    IF /\ HeadIs(s, <<"c","a","l","l">>)
       /\ SpanIn(Drop(s, 4), WS) > 0
       /\ ScriptLen(LStripSet(Drop(s, 4), WS), {s_bat, s_cmd}, TRUE) > 0
    THEN 4 + SpanIn(Drop(s, 4), WS) ELSE 0

\* batch.CALL_RE.findall(line) from the i-th character on
RECURSIVE FindBat(_, _)
BatFrom(line, i, pre, n) ==
    IF n > 0 THEN <<SubSeq(line, i + pre, i + pre + n - 1)>> \o FindBat(line, i + pre + n)
    ELSE FindBat(line, i + 1)

FindBat(line, i) ==
    IF i > Len(line) THEN <<>>
    ELSE BatFrom(line, i, BatPrefix(Drop(line, i - 1)),
                 ScriptLen(Drop(line, i - 1 + BatPrefix(Drop(line, i - 1))),
                           {s_bat, s_cmd}, TRUE))

\* batch.VAR_HINT.search(line) or "%%" in line or "!" in line
BatDynamic(line) ==
    \/ \E i \in 1..Len(line) :
          /\ line[i] = "%"
          /\ NameLen(Drop(line, i)) > 0
          /\ Len(line) > i + NameLen(Drop(line, i))
          /\ line[i + NameLen(Drop(line, i)) + 1] = "%"
    \/ Contains(line, <<"%", "%">>)
    \/ Contains(line, <<"!">>)

\* The edges of one line of a parser that finds the targets ds
LineEdges(src, line, dynamic, kind, ds) ==
    IF Strip(line) = <<>> THEN <<>>
    ELSE [i \in 1..Len(ds) |->
             Edge(src, ds[i], kind, line, dynamic, ~dynamic,
                  IF dynamic THEN 500 ELSE 900, "")]

\* batch.parse_batch.  No CMD file of the model invokes powershell or pwsh,
\* the one thing PS_CALL_RE looks for.
RECURSIVE parse_batch(_, _)
parse_batch(src, lines) ==
    IF lines = <<>> THEN <<>>
    ELSE LineEdges(src, strip_comments(lines[1]), BatDynamic(strip_comments(lines[1])),
                   "call", FindBat(strip_comments(lines[1]), 1))
         \o parse_batch(src, Drop(lines, 1))

\* (?:&\s+)?['"]? of powershell.CALL_RE at the head of s: the characters it
\* takes
PsPrefix(s) ==
    IF StartsWith(s, <<"&">>) /\ SpanIn(Drop(s, 1), WS) > 0
    THEN 1 + SpanIn(Drop(s, 1), WS) ELSE 0
PsQuoted(s) == PsPrefix(s) + QuoteAt(s, PsPrefix(s) + 1)

\* powershell.CALL_RE.findall(line) from the i-th character on
RECURSIVE FindPs(_, _)
PsFrom(line, i, pre, n) ==
    IF n > 0
    THEN <<SubSeq(line, i + pre, i + pre + n - 1)>>
         \o FindPs(line, i + pre + n + QuoteAt(line, i + pre + n))
    ELSE FindPs(line, i + 1)

FindPs(line, i) ==
    IF i > Len(line) THEN <<>>
    ELSE PsFrom(line, i, PsQuoted(Drop(line, i - 1)),
                ScriptLen(Drop(line, i - 1 + PsQuoted(Drop(line, i - 1))), {s_ps1}, FALSE))

\* powershell.DOTSRC_RE.search(line)
DotSourced(line) ==
    /\ StartsWith(LStripSet(line, WS), <<".">>)
    /\ SpanIn(Drop(LStripSet(line, WS), 1), WS) > 0
    /\ ScriptLen(Drop(LStripSet(Drop(LStripSet(line, WS), 1), WS),
                      QuoteAt(LStripSet(Drop(LStripSet(line, WS), 1), WS), 1)),
                 {s_ps1}, FALSE) > 0

\* powershell.DYN_HINT.search(line)
PsDynamic(line) ==
    \/ \E i \in 1..Len(line) : line[i] = "$" /\ NameLen(Drop(line, i)) > 0
    \/ Contains(line, <<"$", "(">>)
    \/ Contains(line, <<"I","n","v","o","k","e","-","E","x","p","r","e","s","s","i","o","n">>)

\* powershell.parse_powershell
RECURSIVE parse_powershell(_, _)
parse_powershell(src, lines) ==
    IF lines = <<>> THEN <<>>
    ELSE LineEdges(src, strip_comments(lines[1]), PsDynamic(strip_comments(lines[1])),
                   IF DotSourced(strip_comments(lines[1])) THEN "source" ELSE "call",
                   FindPs(strip_comments(lines[1]), 1))
         \o parse_powershell(src, Drop(lines, 1))

\* PARSERS.get(p.suffix.lower()) applied to the text of the file.
RunParser(rel, f) ==
    IF \E x \in ShExts : EndsWith(Lower(f.path), x)
    THEN [raised |-> FALSE, edges |-> parse_shell(rel, f.lines)]
    ELSE IF EndsWith(Lower(f.path), s_py)
    THEN parse_python_cli(rel, f.lines)
    ELSE IF EndsWith(Lower(f.path), s_bat) \/ EndsWith(Lower(f.path), s_cmd)
    THEN [raised |-> FALSE, edges |-> parse_batch(rel, FileLines(f))]
    ELSE IF EndsWith(Lower(f.path), s_ps1)
    THEN [raised |-> FALSE, edges |-> parse_powershell(rel, FileLines(f))]
    ELSE [raised |-> FALSE, edges |-> <<>>]

\* dst of the edge loop of Scanner.scan
ScanDst(dst, windows) ==
    IF Contains(dst, <<"$">>) THEN _canon_rel_str(dst, windows)
    ELSE _canon_rel_str(norm_path(dst), windows)

\* The body of the edge loop of Scanner.scan
RECURSIVE ScanEdges(_, _, _)
ScanEdges(g, edges, windows) ==
    IF edges = <<>> THEN g
    ELSE ScanEdges(add_edge(g, [edges[1] EXCEPT !.src = _canon_rel_str(@, windows),
                                                !.dst = ScanDst(@, windows)]),
                   Drop(edges, 1), windows)

RECURSIVE ScanFiles(_, _, _)
\* The edges of a parsed file enter the graph; an exception of the parser
\* leaves Scanner.scan.
ScanParsed(g1, r, rest, windows) ==
    IF r.raised THEN [raised |-> TRUE, graph |-> g1]
    ELSE ScanFiles(ScanEdges(g1, r.edges, windows), rest, windows)

\* One file of Scanner.scan: a file that cannot be read keeps its node only.
ScanFile(g, f, rel, rest, windows) ==
    IF ~is_executable_script(f.path) THEN ScanFiles(g, rest, windows)
    ELSE IF ~f.readable THEN ScanFiles(add_node(g, rel), rest, windows)
    ELSE ScanParsed(add_node(g, rel), RunParser(rel, f), rest, windows)

\* Scanner.scan over the files in rglob order; the parser runs outside any try.
ScanFiles(g, files, windows) ==
    IF files = <<>> THEN [raised |-> FALSE, graph |-> g]
    ELSE ScanFile(g, files[1], _canon_rel_str(files[1].path, windows),
                  Drop(files, 1), windows)

scan(b) == ScanFiles(EmptyGraph, BundleCatalogue[b].files, _is_windows_bundle(BundleCatalogue[b].meta))

(***************************************************************************)
(* agents.py: LLM responses                                                *)
(***************************************************************************)
\* What LLMClient.chat gives back: it raises (kind "error"), or returns text
\* that is no JSON ("text"), JSON that is no object ("list"), an object without
\* the field asked for ("nofield"), or an object with the field ("obj").
Response(kind, items, reasoning) ==
    [kind |-> kind, items |-> items, reasoning |-> reasoning]

\* The reply of the disabled provider: {"targets": [], "reasoning": "LLM disabled"}
Canned(field) ==
    IF field = "targets" THEN Response("obj", <<>>, "LLM disabled")
    ELSE Response("nofield", <<>>, "LLM disabled")

\* Sequences over S of length at most n.
SeqsUpTo(S, n) == UNION {[1..k -> S] : k \in 0..n}

\* The replies of a live provider that carry no list.
Failures == {Response(k, <<>>, "") : k \in {"error", "text", "list", "nofield"}}

\* The replies of a live provider to the Planner and to the Reader: a failure,
\* or an object with a list of at most n items of the pool.
Replies(pool, n) == Failures \cup {Response("obj", t, "") : t \in SeqsUpTo(pool, n)}

\* The target lists a live provider answers the Mapper with.
TargetReplies ==
    << Response("obj", <<>>, ""),
       Response("obj", << t_dot_u_x_sh >>, "llm"),
       Response("obj", << p_nope_sh, p_t_x_sh >>, "llm"),
       Response("obj", << p_U_X_sh, p_nope_sh >>, ""),
       Response("obj", << p_u_x_sh, p_u_x_sh >>, "llm"),
       Response("obj", << p_t_x_sh >>, "") >>

NumTargetReplies == 4

(***************************************************************************)
(* agents.py: Planner                                                      *)
(***************************************************************************)
Basename(f) == LET parts == SplitOn(f, "/") IN parts[Len(parts)]

\* Planner._light_crawl: rglob("*" + ext) matches the suffix as written.
_light_crawl(b) ==
    SortedStrs({b.files[i].path : i \in {j \in 1..Len(b.files) :
                    \E x \in ScriptExts : EndsWith(b.files[j].path, x)}})

\* Planner._load_seeds
_load_seeds(b) ==
    {LStripSet(Replace(Strip(b.seeds[i]), <<"\\">>, <<"/">>), {".", "/"}) :
        i \in {j \in 1..Len(b.seeds) :
                  Strip(b.seeds[j]) # <<>> /\ ~StartsWith(Strip(b.seeds[j]), <<"#">>)}}

EntryNames == {<<"r","u","n",".","s","h">>, <<"r","u","n",".","c","m","d">>, <<"r","u","n",".","b","a","t">>, <<"s","t","a","r","t",".","c","m","d">>, <<"m","a","i","n",".","b","a","t">>}

PriorityNames == {<<"r","u","n",".","s","h">>, <<"m","a","i","n",".","b","a","t">>, <<"s","t","a","r","t",".","c","m","d">>}

\* The orders in which list(a_set) can enumerate the set.
Orders(S) == {p \in [1..Cardinality(S) -> S] : \A x \in S : \E i \in 1..Cardinality(S) : p[i] = x}

\* wl.append(s) for the s not yet in wl
RECURSIVE AppendUnique(_, _)
AppendUnique(wl, xs) ==
    IF xs = <<>> THEN wl
    ELSE AppendUnique(IF xs[1] \in Range(wl) THEN wl ELSE Append(wl, xs[1]), Drop(xs, 1))

\* The (src, command) pairs of the dynamic unresolved baseline edges.
PlanPairs(graph) == SelectSeq(graph.edges, LAMBDA e : e.dynamic /\ ~e.resolved)

\* _llm_plan: client.chat and data.get run outside any try.
_llm_plan(resp, pairs) ==
    IF pairs = <<>> THEN [raised |-> FALSE, called |-> FALSE, ordered |-> <<>>]
    ELSE IF resp.kind \in {"error", "list"}
    THEN [raised |-> TRUE, called |-> TRUE, ordered |-> <<>>]
    ELSE LET wl == IF resp.kind = "obj" THEN resp.items ELSE <<>>
             cand == {pairs[i].src : i \in 1..Len(pairs)}
         IN [raised |-> FALSE, called |-> TRUE,
             ordered |-> SelectSeq(wl, LAMBDA x : x \in cand)]

\* The size Planner._build_worklist cuts the worklist to, scaled to the
\* bundles of the model (the code cuts at 200).
WorklistCap == 2

\* The worklist with the files the LLM ordered put first
PlanFirst(wl1, planned, ordered) ==
    IF planned # <<>>
    THEN ordered \o SelectSeq(wl1, LAMBDA x : x \notin Range(ordered))
    ELSE wl1

WorklistOf(files, dyn, order, plan) ==
    [raised |-> plan.raised, called |-> plan.called,
     worklist |-> Take(PlanFirst(AppendUnique(order, [i \in 1..Len(dyn) |-> dyn[i].src]),
                                 plan.ordered,
                                 SelectSeq(plan.ordered, LAMBDA x : x \in files)),
                       WorklistCap)]

\* The dynamic unresolved baseline edges whose src is a crawled file
DynOf(graph, files) ==
    SelectSeq(graph.edges, LAMBDA e : e.dynamic /\ ~e.resolved /\ e.src \in files)

\* Planner._build_worklist, for one enumeration order of seeds | entry
_build_worklist(b, graph, order, resp) ==
    WorklistOf(Range(_light_crawl(b)), DynOf(graph, Range(_light_crawl(b))), order,
               _llm_plan(resp, PlanPairs(graph)))

\* seeds | entry of Planner._build_worklist
WorklistBase(b) ==
    LET files == Range(_light_crawl(b))
    IN (_load_seeds(b) \cap files) \cup {f \in files : Lower(Basename(f)) \in EntryNames}

PeekDefault == 4096
PeekPromoted == 8192
PrioSeed == 500
PrioEntry == 100
PrioOther == 10
PrioPromoted == 200

\* The manifest files of Planner.run
PlannerFiles(b) ==
    LET files == _light_crawl(b)
    IN [i \in 1..Len(files) |->
          [path |-> files[i],
           priority |-> IF files[i] \in _load_seeds(b) THEN PrioSeed
                        ELSE IF Lower(Basename(files[i])) \in PriorityNames THEN PrioEntry
                        ELSE PrioOther,
           peek |-> PeekDefault]]

\* The manifest files AgentRunner.run builds in 2R mode
RunnerFiles2R(b) ==
    LET files == _light_crawl(b)
    IN [i \in 1..Len(files) |->
          [path |-> files[i],
           priority |-> IF files[i] \in _load_seeds(b) THEN PrioSeed ELSE PrioOther,
           peek |-> PeekDefault]]

(***************************************************************************)
(* agents.py: Reader                                                       *)
(***************************************************************************)
\* Reader._lang
_lang(p) ==
    LET px == Lower(p)
    IN IF \E x \in ShExts : EndsWith(px, x) THEN "sh"
       ELSE IF EndsWith(px, s_bat) \/ EndsWith(px, s_cmd) THEN "cmd"
       ELSE IF EndsWith(px, s_ps1) THEN "ps1"
       ELSE IF EndsWith(px, s_py) THEN "py"
       ELSE IF EndsWith(px, s_pl) THEN "pl"
       ELSE "other"

\* "\n".join(lines)
RECURSIVE JoinLines(_)
JoinLines(lines) ==
    IF lines = <<>> THEN <<>>
    ELSE IF Len(lines) = 1 THEN lines[1]
    ELSE lines[1] \o <<"\n">> \o JoinLines(Drop(lines, 1))

\* The bytes of the peek window.
PeekText(f, peek) == Take(JoinLines(FileLines(f)), peek)

\* Length of the longest prefix of s outside cs.
RECURSIVE SpanOut(_, _)
SpanOut(s, cs) == IF s # <<>> /\ s[1] \notin cs THEN 1 + SpanOut(Drop(s, 1), cs) ELSE 0

\* The alternatives of the kind group of _rx_call_sh, in their order.
CallKindWords ==
    << <<".">>, <<"s","o","u","r","c","e">>, <<"b","a","s","h">>, <<"s","h">>, <<"k","s","h">>, <<"p","y","t","h","o","n">>, <<"p","y","t","h","o","n","3">>, <<"p","e","r","l">> >>

\* One alternative of the kind group matches at the head of s
KindOk(s, k) ==
    /\ StartsWith(s, k)
    /\ SpanIn(Drop(s, Len(k)), WS) > 0
    /\ SpanOut(LStripSet(Drop(s, Len(k)), WS), WS \cup {";"}) > 0

KindHits(s) == {i \in 1..Len(CallKindWords) : KindOk(s, CallKindWords[i])}

MinOf(S) == CHOOSE i \in S : \A j \in S : i <= j

\* The match: kind k, ws white-space characters, a target of tl characters
CallMatch(s, k, ws, tl) ==
    [found |-> TRUE, kind |-> k,
     target |-> SubSeq(Drop(s, Len(k)), ws + 1, ws + tl),
     full |-> Take(s, Len(k) + ws + tl)]

CallOfKind(s, k) ==
    CallMatch(s, k, SpanIn(Drop(s, Len(k)), WS),
              SpanOut(LStripSet(Drop(s, Len(k)), WS), WS \cup {";"}))

CallFirst(s, hits) ==
    IF hits = {} THEN [found |-> FALSE] ELSE CallOfKind(s, CallKindWords[MinOf(hits)])

\* _rx_call_sh matched at the head of s: kind word, \s+, then [^\s;]+
CallAt(s) == CallFirst(s, KindHits(s))

RECURSIVE FindCalls(_)
\* The search goes on after a match, or one character further
FindFrom(text, m) ==
    IF m.found THEN <<m>> \o FindCalls(Drop(text, Len(m.full)))
    ELSE FindCalls(Drop(text, 1))

\* _rx_call_sh.finditer(text)
FindCalls(text) == IF text = <<>> THEN <<>> ELSE FindFrom(text, CallAt(text))

\* The whole of s is $NAME, ${NAME}, %NAME% or !NAME!
IsVarToken(s) ==
    \/ (StartsWith(s, <<"$">>) /\ Len(s) > 1 /\ NameLen(Drop(s, 1)) = Len(s) - 1)
    \/ (StartsWith(s, <<"$", "{">>) /\ EndsWith(s, <<"}">>) /\ Len(s) > 3
          /\ NameLen(SubSeq(s, 3, Len(s) - 1)) = Len(s) - 3)
    \/ (\E q \in {"%", "!"} : Len(s) > 2 /\ s[1] = q /\ s[Len(s)] = q
          /\ NameLen(SubSeq(s, 2, Len(s) - 1)) = Len(s) - 2)

\* Reader._plausible_target
_plausible_target(tok) ==
    LET t == StripQuotes(tok)
    IN /\ t # <<>>
       /\ \/ Contains(t, <<"/">>) \/ Contains(t, <<"\\">>)
          \/ \E x \in ScriptExts : EndsWith(Lower(t), x)
          \/ IsVarToken(t)

\* \beval\b
HasEvalWord(s) ==
    \E i \in 1..(Len(s) - 3) :
        /\ SubSeq(s, i, i + 3) = <<"e", "v", "a", "l">>
        /\ (i = 1 \/ ~IsWordCh(s[i - 1]))
        /\ (i + 3 = Len(s) \/ ~IsWordCh(s[i + 4]))

\* Reader._is_dynamic_sh
_is_dynamic_sh(s) == VAR_HINT(s) \/ Contains(s, <<"$", "(">>) \/ HasEvalWord(s)

\* Length of NAME in a leading $NAME
VarNameLen(r) == IF StartsWith(r, <<"$">>) THEN NameLen(Drop(r, 1)) ELSE 0

VarTokOf(q1, r, n) == IF n = 0 THEN 0 ELSE q1 + 1 + n + QuoteAt(r, n + 2)

VarTokQ(s, q1) == VarTokOf(q1, Drop(s, q1), VarNameLen(Drop(s, q1)))

\* Length of ["']?\$NAME["']? at the head of s, 0 when it does not match.
VarTokLen(s) == VarTokQ(s, QuoteAt(s, 1))

\* The token of n characters at the head of s, when white space or the end follows
TokenAlone(s, n) ==
    IF n > 0 /\ (Len(s) = n \/ IsSpaceCh(s[n + 1])) THEN Take(s, n) ELSE <<>>

\* _rx_call_sh_var on one line: the target, or <<>>
CallShVar(raw) == TokenAlone(LStripSet(raw, WS), VarTokLen(LStripSet(raw, WS)))

\* The variable token after the interpreter variable of n characters
InterpArg(n, r) ==
    IF n > 0 /\ SpanIn(r, WS) > 0 /\ VarTokLen(LStripSet(r, WS)) > 0
    THEN Take(LStripSet(r, WS), VarTokLen(LStripSet(r, WS)))
    ELSE <<>>

InterpOf(s, n) == InterpArg(n, Drop(s, n + 1))

\* _rx_call_sh_interp_var on one line: the target, or <<>>
CallShInterpVar(raw) == InterpOf(LStripSet(raw, WS), VarNameLen(LStripSet(raw, WS)))

\* [A-Za-z0-9_./${}-]
IsEnvValCh(c) == IsWordCh(c) \/ c \in {".", "/", "$", "{", "}", "-"}

\* (?:export\s+)?
Unexport(s) ==
    IF StartsWith(s, <<"e","x","p","o","r","t">>) /\ SpanIn(Drop(s, 6), WS) > 0
    THEN LStripSet(Drop(s, 6), WS) ELSE s

\* ["']? before and after the value
DropQuoteHead(v) == IF v # <<>> /\ v[1] \in {"\"", "'"} THEN Drop(v, 1) ELSE v
DropQuoteTail(v) == IF v # <<>> /\ v[Len(v)] \in {"\"", "'"} THEN Take(v, Len(v) - 1) ELSE v

\* What follows the name, and the value after the "="
EnvRest(s, n) == LStripSet(Drop(s, n), WS)
EnvValue(r) == DropQuoteTail(DropQuoteHead(LStripSet(Drop(r, 1), WS)))

EnvOf(s, n, r, v) ==
    IF n > 0 /\ StartsWith(r, <<"=">>) /\ v # <<>> /\ \A i \in 1..Len(v) : IsEnvValCh(v[i])
    THEN [found |-> TRUE, name |-> Take(s, n), value |-> v]
    ELSE [found |-> FALSE]

EnvSplit(s, n) == EnvOf(s, n, EnvRest(s, n), EnvValue(EnvRest(s, n)))

\* _rx_env_sh on one line: an optional export, NAME = VALUE with optional quotes
EnvMatch(line) == EnvSplit(Unexport(Strip(line)), NameLen(Unexport(Strip(line))))

\* the cleaned value when it is a path, else None
PathOrNone(c) == IF c # <<>> /\ \A i \in 1..Len(c) : IsPathCh(c[i]) THEN c ELSE <<>>

\* agents._clean_val: the value, or <<>> for None
_clean_val(v) == PathOrNone(StripQuotes(v))

\* The hints with a name and a clean value
HintVars(ok) ==
    [i \in 1..Len(ok) |-> [name |-> ok[i].name, value |-> _clean_val(ok[i].value)]]

\* _llm_read_hints: the hints kept; a raise is caught by Reader.run.
_llm_read_hints(resp) ==
    IF resp.kind # "obj" THEN <<>>
    ELSE HintVars(SelectSeq(resp.items,
                            LAMBDA h : h.name # <<>> /\ _clean_val(h.value) # <<>>))

PrecLocal == 10
PrecHint == 5

\* The local assignments at precedence 10, then the hints at precedence 5
EnvVars(rel, ms, hints) ==
    [i \in 1..Len(ms) |->
        [scope |-> rel, name |-> ms[i].name, value |-> ms[i].value, prec |-> PrecLocal]]
    \o [i \in 1..Len(hints) |->
        [scope |-> rel, name |-> hints[i].name, value |-> hints[i].value, prec |-> PrecHint]]

\* The env_vars Reader.run records for one shell file
ReadEnv(rel, lines, hints) ==
    EnvVars(rel,
            SelectSeq([i \in 1..Len(lines) |-> EnvMatch(lines[i])], LAMBDA m : m.found),
            hints)

Site(src, raw, cmd, kind, dynamic) ==
    [src |-> src, raw |-> raw, cmd |-> cmd, kind |-> kind, dynamic |-> dynamic]

\* The sites of the three call patterns, in the order Reader.run records them
SitesOf(rel, ms, iv, sv) ==
    [i \in 1..Len(ms) |->
        Site(rel, ms[i].target, ms[i].full,
             IF ms[i].kind \in {<<".">>, <<"s","o","u","r","c","e">>} THEN "source" ELSE "call",
             _is_dynamic_sh(ms[i].full))]
    \o [i \in 1..Len(iv) |-> Site(rel, CallShInterpVar(iv[i]), Strip(iv[i]), "call", TRUE)]
    \o [i \in 1..Len(sv) |-> Site(rel, CallShVar(sv[i]), Strip(sv[i]), "call", TRUE)]

\* The call_sites Reader.run records for one shell file
ReadSites(rel, text, lines) ==
    SitesOf(rel,
            SelectSeq(FindCalls(text), LAMBDA m : _plausible_target(m.target)),
            SelectSeq(lines, LAMBDA l : CallShInterpVar(l) # <<>>
                                        /\ _plausible_target(CallShInterpVar(l))),
            SelectSeq(lines, LAMBDA l : CallShVar(l) # <<>>
                                        /\ _plausible_target(CallShVar(l))))

(***************************************************************************)
(* agents.py: Reader, the CMD branch                                       *)
(***************************************************************************)
ExpandRounds == 4

\* dict.get(k, default) on a dict kept as its items in insertion order
GetOr(d, k, default) ==
    IF \E i \in 1..Len(d) : d[i].name = k
    THEN d[CHOOSE i \in 1..Len(d) : d[i].name = k].value
    ELSE default

\* re.sub(r'%%([A-Za-z])', sub_loop, out): %%F becomes loop_vars['F'] when
\* the loop variable is bound and stays as it is otherwise.
RECURSIVE SubLoop(_, _)
SubLoop(out, loop_vars) ==
    IF Len(out) < 3 THEN out
    ELSE IF out[1] = "%" /\ out[2] = "%" /\ (IsUpperCh(out[3]) \/ IsLowerCh(out[3]))
         THEN GetOr(loop_vars, Upper(<<out[3]>>), Take(out, 3))
              \o SubLoop(Drop(out, 3), loop_vars)
    ELSE <<out[1]>> \o SubLoop(Drop(out, 1), loop_vars)

\* out.replace(f"%{kk}%", vv).replace(f"!{kk}!", vv) with kk = k.upper()
ExpandVar(out, k, vv) ==
    Replace(Replace(out, <<"%">> \o Upper(k) \o <<"%">>, vv),
            <<"!">> \o Upper(k) \o <<"!">>, vv)

RECURSIVE ExpandVars(_, _)
ExpandVars(out, env) ==
    IF env = <<>> THEN out
    ELSE ExpandVars(ExpandVar(out, env[1].name, StripQuotes(env[1].value)), Drop(env, 1))

\* One pass of Reader._expand_cmd_value: the loop tokens, then env.items()
ExpandOnce(out, env, loop_vars) == ExpandVars(SubLoop(out, loop_vars), env)

RECURSIVE ExpandLoop(_, _, _, _)
\* if out == prev: break
ExpandNext(prev, out, env, loop_vars, n) ==
    IF out = prev THEN out ELSE ExpandLoop(out, env, loop_vars, n - 1)

ExpandLoop(out, env, loop_vars, n) ==
    IF n = 0 THEN out ELSE ExpandNext(out, ExpandOnce(out, env, loop_vars), env, loop_vars, n)

\* Reader._expand_cmd_value
_expand_cmd_value(s, env, loop_vars) ==
    Replace(ExpandLoop(StripQuotes(s), env, loop_vars, ExpandRounds), <<"\\">>, <<"/">>)

\* d[k] = v on a dict kept as its items: a key already there keeps its place
DictSet(d, k, v) ==
    IF \E i \in 1..Len(d) : d[i].name = k
    THEN [i \in 1..Len(d) |-> IF d[i].name = k THEN [name |-> k, value |-> v] ELSE d[i]]
    ELSE Append(d, [name |-> k, value |-> v])

\* \b before the i-th character of line, a word character
WordStartsAt(line, i) == i = 1 \/ ~IsWordCh(line[i - 1])

\* _rx_cmd_for_in at the head of s: for \s+ %%X \s+ in \s* ( [^)]+ )
ForVar(s) == LStripSet(Drop(s, 3), WS)
ForIn(s) == LStripSet(Drop(ForVar(s), 3), WS)
ForList(s) == Drop(LStripSet(Drop(ForIn(s), 2), WS), 1)
ForAt(s) ==
    /\ HeadIs(s, <<"f","o","r">>)
    /\ SpanIn(Drop(s, 3), WS) > 0
    /\ Len(ForVar(s)) >= 3
    /\ ForVar(s)[1] = "%" /\ ForVar(s)[2] = "%"
    /\ (IsUpperCh(ForVar(s)[3]) \/ IsLowerCh(ForVar(s)[3]))
    /\ SpanIn(Drop(ForVar(s), 3), WS) > 0
    /\ HeadIs(ForIn(s), <<"i","n">>)
    /\ StartsWith(LStripSet(Drop(ForIn(s), 2), WS), <<"(">>)
    /\ SpanOut(ForList(s), {")"}) > 0
    /\ SpanOut(ForList(s), {")"}) < Len(ForList(s))

\* _rx_cmd_for_in.search(line): the places where it matches
ForHits(line) == {i \in 1..Len(line) : WordStartsAt(line, i) /\ ForAt(Drop(line, i - 1))}

\* loop_vars[var] = val for the first match on the line
ForBind(loop_vars, s) ==
    DictSet(loop_vars, Upper(<<ForVar(s)[3]>>),
            StripQuotes(Take(ForList(s), SpanOut(ForList(s), {")"}))))

LoopVarsAfter(loop_vars, line) ==
    IF ForHits(line) = {} THEN loop_vars
    ELSE ForBind(loop_vars, Drop(line, MinOf(ForHits(line)) - 1))

\* (.+?)\s*(?:&|$): the shortest value of at least one character that white
\* space and then "&" or the end of the line follow
ValueEnds(t, k) ==
    LStripSet(Drop(t, k), WS) = <<>> \/ StartsWith(LStripSet(Drop(t, k), WS), <<"&">>)
ValueLen(t) == MinOf({k \in 1..Len(t) : ValueEnds(t, k)})

\* _rx_env_cmd_any at the head of s: set, not setlocal, \s+ NAME = value
SetName(s) == LStripSet(Drop(s, 3), WS)
SetValue(s) == Drop(SetName(s), NameLen(SetName(s)) + 1)
SetAt(s) ==
    /\ HeadIs(s, <<"s","e","t">>)
    /\ ~HeadIs(SetName(s), <<"l","o","c","a","l">>)
    /\ SpanIn(Drop(s, 3), WS) > 0
    /\ NameLen(SetName(s)) > 0
    /\ StartsWith(Drop(SetName(s), NameLen(SetName(s))), <<"=">>)
    /\ SetValue(s) # <<>>

\* The characters the match takes: up to the value, the white space after
\* it and the "&"
SetTaken(s) ==
    (Len(s) - Len(SetValue(s))) + ValueLen(SetValue(s))
    + SpanIn(Drop(SetValue(s), ValueLen(SetValue(s))), WS)
    + (IF StartsWith(LStripSet(Drop(SetValue(s), ValueLen(SetValue(s))), WS), <<"&">>)
       THEN 1 ELSE 0)

\* _rx_env_cmd_any.finditer(line) from the i-th character on: name and raw
\* value of each match
RECURSIVE FindSets(_, _)
FindSets(line, i) ==
    IF i > Len(line) THEN <<>>
    ELSE IF WordStartsAt(line, i) /\ SetAt(Drop(line, i - 1))
    THEN << [name |-> Take(SetName(Drop(line, i - 1)), NameLen(SetName(Drop(line, i - 1)))),
             value |-> Take(SetValue(Drop(line, i - 1)),
                            ValueLen(SetValue(Drop(line, i - 1))))] >>
         \o FindSets(line, i + SetTaken(Drop(line, i - 1)))
    ELSE FindSets(line, i + 1)

\* _rx_call_cmd at the head of s: call or start, \s+, then [^\s&]+
CallCmdWord(s) ==
    IF HeadIs(s, <<"c","a","l","l">>) THEN 4
    ELSE IF HeadIs(s, <<"s","t","a","r","t">>) THEN 5 ELSE 0
CallCmdTarget(s) ==
    Take(LStripSet(Drop(s, CallCmdWord(s)), WS),
         SpanOut(LStripSet(Drop(s, CallCmdWord(s)), WS), WS \cup {"&"}))
CallCmdAt(s) ==
    /\ CallCmdWord(s) > 0
    /\ SpanIn(Drop(s, CallCmdWord(s)), WS) > 0
    /\ CallCmdTarget(s) # <<>>
CallCmdTaken(s) ==
    CallCmdWord(s) + SpanIn(Drop(s, CallCmdWord(s)), WS) + Len(CallCmdTarget(s))

\* _rx_call_cmd.finditer(line) from the i-th character on
RECURSIVE FindCmdCalls(_, _)
FindCmdCalls(line, i) ==
    IF i > Len(line) THEN <<>>
    ELSE IF WordStartsAt(line, i) /\ CallCmdAt(Drop(line, i - 1))
    THEN << [target |-> CallCmdTarget(Drop(line, i - 1)),
             full |-> Take(Drop(line, i - 1), CallCmdTaken(Drop(line, i - 1)))] >>
         \o FindCmdCalls(line, i + CallCmdTaken(Drop(line, i - 1)))
    ELSE FindCmdCalls(line, i + 1)

\* Reader._is_dynamic_cmd: %NAME% or !NAME! somewhere in s
_is_dynamic_cmd(s) ==
    \E i \in 1..Len(s) :
        /\ s[i] \in {"%", "!"}
        /\ NameLen(Drop(s, i)) > 0
        /\ Len(s) > i + NameLen(Drop(s, i))
        /\ s[i + NameLen(Drop(s, i)) + 1] = s[i]

\* The sets of one line, in order: local_env[name] = val and one more env var
RECURSIVE CmdSets(_, _, _)
CmdSets(st, rel, ms) ==
    IF ms = <<>> THEN st
    ELSE CmdSets([st EXCEPT
                     !.local_env = DictSet(@, Upper(ms[1].name),
                                           _expand_cmd_value(ms[1].value, st.local_env,
                                                             st.loop_vars)),
                     !.env_vars = Append(@,
                                     [scope |-> rel, name |-> Upper(ms[1].name),
                                      value |-> _expand_cmd_value(ms[1].value, st.local_env,
                                                                  st.loop_vars),
                                      prec |-> PrecLocal])],
                 rel, Drop(ms, 1))

\* The call sites of one line
CmdSites(rel, ms) ==
    [i \in 1..Len(ms) |->
        [src |-> rel, raw |-> ms[i].target, cmd |-> Strip(ms[i].full), kind |-> "call",
         dynamic |-> _is_dynamic_cmd(Strip(ms[i].full))]]

\* One line of a CMD file: the FOR binding, the sets, the call sites
CmdLine(st, rel, line) ==
    [CmdSets([st EXCEPT !.loop_vars = LoopVarsAfter(@, line)], rel, FindSets(line, 1))
        EXCEPT !.call_sites =
                   @ \o CmdSites(rel, SelectSeq(FindCmdCalls(line, 1),
                                                LAMBDA m : _plausible_target(m.target)))]

\* The CMD branch of Reader.run: the lines top to bottom, with the env and
\* the loop variables of the file so far
RECURSIVE ReadCmdFrom(_, _, _)
ReadCmdFrom(st, rel, lines) ==
    IF lines = <<>> THEN st
    ELSE ReadCmdFrom(CmdLine(st, rel, RStripSet(lines[1], WS)), rel, Drop(lines, 1))

ReadCmd(rel, lines) ==
    ReadCmdFrom([local_env |-> <<>>, loop_vars |-> <<>>, env_vars |-> <<>>,
                 call_sites |-> <<>>], rel, lines)

(***************************************************************************)
(* agents.py: Reader, the PowerShell branch                                *)
(***************************************************************************)
PrecJoin == 9
Quotes == {"'", "\""}

\* [A-Za-z0-9_./\\-]
IsPsValCh(c) == IsPathCh(c) \/ c = "\\"

\* ^\s*\$NAME\s*=\s*: the name, and what follows the "="
PsName(s) == Drop(LStripSet(s, WS), 1)
PsAfterName(s) == LStripSet(Drop(PsName(s), NameLen(PsName(s))), WS)
PsAssigned(s) == LStripSet(Drop(PsAfterName(s), 1), WS)
PsAssignAt(s) ==
    /\ StartsWith(LStripSet(s, WS), <<"$">>)
    /\ NameLen(PsName(s)) > 0
    /\ StartsWith(PsAfterName(s), <<"=">>)

\* The characters of the value after the opening quote
PsStrLen(s) == Len(Drop(PsAssigned(s), 1)) - Len(LStripSet(Drop(PsAssigned(s), 1),
                                                           {c \in CharSet : IsPsValCh(c)}))

\* _rx_ps_assign_str.match(line): $NAME = 'value' and nothing more
PsStrAt(s) ==
    /\ PsAssignAt(s)
    /\ PsAssigned(s) # <<>> /\ PsAssigned(s)[1] \in Quotes
    /\ PsStrLen(s) > 0
    /\ Len(PsAssigned(s)) >= PsStrLen(s) + 2
    /\ PsAssigned(s)[PsStrLen(s) + 2] \in Quotes
    /\ Strip(Drop(PsAssigned(s), PsStrLen(s) + 2)) = <<>>
PsStrValue(s) == SubSeq(PsAssigned(s), 2, PsStrLen(s) + 1)

\* Join-Path\s+([^\s;]+)\s+([^\s;]+) after the "=": the two arguments
JoinArgs(s) == LStripSet(Drop(PsAssigned(s), 9), WS)
JoinA(s) == Take(JoinArgs(s), SpanOut(JoinArgs(s), WS \cup {";"}))
JoinRest(s) == LStripSet(Drop(JoinArgs(s), Len(JoinA(s))), WS)
JoinB(s) == Take(JoinRest(s), SpanOut(JoinRest(s), WS \cup {";"}))

\* _rx_ps_assign_join at the head of s
JoinAt(s) ==
    /\ PsAssignAt(s)
    /\ HeadIs(PsAssigned(s), <<"j","o","i","n","-","p","a","t","h">>)
    /\ SpanIn(Drop(PsAssigned(s), 9), WS) > 0
    /\ JoinA(s) # <<>>
    /\ SpanIn(Drop(JoinArgs(s), Len(JoinA(s))), WS) > 0
    /\ JoinB(s) # <<>>
JoinDest(s) == Take(PsName(s), NameLen(PsName(s)))
JoinTaken(s) == Len(s) - Len(JoinRest(s)) + Len(JoinB(s))

\* _tok / tok: a quoted literal, $PSScriptRoot, a variable of env, or a bare
\* literal; <<>> for None
PsTok(t, env) ==
    IF t[1] \in Quotes /\ t[Len(t)] \in Quotes THEN _norm_path(StripSet(t, Quotes))
    ELSE IF t[1] = "$"
    THEN IF Upper(Drop(t, 1)) = <<"P","S","S","C","R","I","P","T","R","O","O","T">>
         THEN <<".">>
         ELSE GetOr(env, Drop(t, 1), <<>>)
    ELSE _norm_path(t)

\* _norm_path(f"{a1.rstrip('/')}/{b1.lstrip('/')}")
JoinValue(a1, b1) == _norm_path(RStripSet(a1, {"/"}) \o <<"/">> \o LStripSet(b1, {"/"}))

\* if a1 and b1
JoinOk(s, env) == PsTok(JoinA(s), env) # <<>> /\ PsTok(JoinB(s), env) # <<>>
JoinOf(s, env) == JoinValue(PsTok(JoinA(s), env), PsTok(JoinB(s), env))

\* One line of the assignment loop of the PowerShell branch
PsLine(st, rel, line) ==
    IF PsStrAt(line)
    THEN [ps_locals |-> DictSet(st.ps_locals, JoinDest(line), _norm_path(PsStrValue(line))),
          env_vars |-> Append(st.env_vars,
                              [scope |-> rel, name |-> JoinDest(line),
                               value |-> _norm_path(PsStrValue(line)), prec |-> PrecLocal])]
    ELSE IF JoinAt(line) /\ JoinOk(line, st.ps_locals)
    THEN [ps_locals |-> DictSet(st.ps_locals, JoinDest(line), JoinOf(line, st.ps_locals)),
          env_vars |-> Append(st.env_vars,
                              [scope |-> rel, name |-> JoinDest(line),
                               value |-> JoinOf(line, st.ps_locals), prec |-> PrecJoin])]
    ELSE st

RECURSIVE PsLines(_, _, _)
PsLines(st, rel, lines) ==
    IF lines = <<>> THEN st ELSE PsLines(PsLine(st, rel, lines[1]), rel, Drop(lines, 1))

\* _rx_call_ps1 at the i-th character of text: "." or "&" at the start of the
\* text or after white space; 0 when neither alternative matches
PsMark(text, i) ==
    IF i = 1 /\ text[1] \in {".", "&"} THEN 1
    ELSE IF text[i] \in WS /\ Len(text) > i /\ text[i + 1] \in {".", "&"} THEN i + 1
    ELSE 0
PsTarget(text, m) ==
    Take(LStripSet(Drop(text, m), WS), SpanOut(LStripSet(Drop(text, m), WS), WS))
PsCallAt(text, i) ==
    /\ PsMark(text, i) > 0
    /\ text[PsMark(text, i)] = "." => SpanIn(Drop(text, PsMark(text, i)), WS) > 0
    /\ PsTarget(text, PsMark(text, i)) # <<>>
PsCallEnd(text, m) == m + SpanIn(Drop(text, m), WS) + Len(PsTarget(text, m))

\* _rx_call_ps1.finditer(text) from the i-th character on
RECURSIVE FindPsCalls(_, _)
FindPsCalls(text, i) ==
    IF i > Len(text) THEN <<>>
    ELSE IF PsCallAt(text, i)
    THEN << [dot |-> text[PsMark(text, i)] = ".",
             target |-> PsTarget(text, PsMark(text, i)),
             full |-> SubSeq(text, i, PsCallEnd(text, PsMark(text, i)))] >>
         \o FindPsCalls(text, PsCallEnd(text, PsMark(text, i)) + 1)
    ELSE FindPsCalls(text, i + 1)

\* (?<!\w)\$[A-Za-z_]\w*
HasPsVar(s) ==
    \E i \in 1..(Len(s) - 1) :
        s[i] = "$" /\ (i = 1 \/ ~IsWordCh(s[i - 1])) /\ IsNameStart(s[i + 1])

\* Reader._is_dynamic_ps1
_is_dynamic_ps1(full, tgt) ==
    \/ StartsWith(Strip(tgt), <<"$">>)
    \/ HasPsVar(full)
    \/ Contains(full, <<"$", "(">>)
    \/ Contains(full, <<"J","o","i","n","-","P","a","t","h">>)
    \/ Contains(full, <<"R","e","s","o","l","v","e","-","P","a","t","h">>)
    \/ Contains(full, <<"I","n","v","o","k","e","-","E","x","p","r","e","s","s","i","o","n">>)

PsSites(rel, ms) ==
    [i \in 1..Len(ms) |->
        [src |-> rel, raw |-> ms[i].target, cmd |-> Strip(ms[i].full),
         kind |-> IF ms[i].dot THEN "source" ELSE "call",
         dynamic |-> _is_dynamic_ps1(Strip(ms[i].full), ms[i].target)]]

\* The PowerShell branch of Reader.run
ReadPsText(rel, text, lines) ==
    [env_vars |-> PsLines([ps_locals |-> <<>>, env_vars |-> <<>>], rel, lines).env_vars,
     call_sites |-> PsSites(rel, SelectSeq(FindPsCalls(text, 1),
                                           LAMBDA m : _plausible_target(m.target)))]

\* Mutant: the order by path alone.
ReadKeyLessByPath(wl, a, b) == LexLess(a.path, b.path)

\* sorted(manifest.files, key=(not in worklist, -priority, path))
ReadKeyLess(wl, a, b) ==
    LET ka == IF a.path \in wl THEN 0 ELSE 1
        kb == IF b.path \in wl THEN 0 ELSE 1
    IN \/ ka < kb
       \/ (ka = kb /\ a.priority > b.priority)
       \/ (ka = kb /\ a.priority = b.priority /\ LexLess(a.path, b.path))

RECURSIVE SortFiles(_, _)
SortFiles(S, wl) ==
    IF S = {} THEN <<>>
    ELSE LET m == CHOOSE x \in S : \A y \in S \ {x} : ReadKeyLess(wl, x, y)
         IN <<m>> \o SortFiles(S \ {m}, wl)

\* ordered[:max_files] when max_files is positive
CutTo(ordered, max_files) ==
    IF max_files > 0 /\ Len(ordered) > max_files THEN Take(ordered, max_files) ELSE ordered

\* The files Reader.run peeks, in order, cut to max_files when that is positive
ReadOrder(files, worklist, max_files) ==
    CutTo(SortFiles(Range(files), Range(worklist)), max_files)

(***************************************************************************)
(* agents.py: Mapper                                                       *)
(***************************************************************************)
\* allowed_set of Mapper.run
allowed_set(b) ==
    {_norm_path(b.files[i].path) : i \in {j \in 1..Len(b.files) :
        \E x \in ScriptExts : EndsWith(b.files[j].path, x)}}

\* _canon_case of Mapper.run
_canon_case(p, windowsish) == IF windowsish THEN Lower(p) ELSE p

\* (t in allowed_set) or (windowsish and t.lower() in allowed_lower)
InAllowed(t, A, windowsish) ==
    t \in A \/ (windowsish /\ Lower(t) \in {Lower(x) : x \in A})

ALLOWED_PREFIXES ==
    {<<"."," ">>, <<"s","o","u","r","c","e"," ">>, <<"&"," ">>, <<"c","a","l","l"," ">>, <<"s","t","a","r","t"," ">>, <<"b","a","s","h"," ">>, <<"s","h"," ">>, <<"k","s","h"," ">>, <<"p","y","t","h","o","n"," ">>, <<"p","y","t","h","o","n","3"," ">>, <<"p","e","r","l"," ">>}

\* [\w./-]+\.(ext) at the head of s, followed by white space, by the end, or
\* by a closing quote and the end
DirectCallBody(s) ==
    \E n \in 1..Len(s) :
        /\ \A i \in 1..n : IsPathCh(s[i])
        /\ \E x \in ScriptExts : EndsWith(Take(s, n), x) /\ n > Len(x)
        /\ \/ n = Len(s)
           \/ IsSpaceCh(s[n + 1])
           \/ (n + 1 = Len(s) /\ s[n + 1] \in {"\"", "'"})

\* DIRECT_CALL_RE.match(cmd): in the prefix (\./|../|/) the dots of ../ stand
\* for any character
DIRECT_CALL_RE(cmd) ==
    LET s == IF cmd # <<>> /\ cmd[1] \in {"\"", "'"} THEN Drop(cmd, 1) ELSE cmd
    IN \/ DirectCallBody(s)
       \/ (Len(s) >= 3 /\ s[3] = "/" /\ DirectCallBody(Drop(s, 3)))

\* The command is empty, starts with an allowed prefix, or is a direct call
KeepsCmd(cmd) ==
    cmd = <<>> \/ (\E pfx \in ALLOWED_PREFIXES : StartsWith(cmd, pfx)) \/ DIRECT_CALL_RE(cmd)

\* The sanity filter of the static carry-over
CarryOverKeeps(e, A, windowsish) ==
    /\ (_canon_case(e.dst, windowsish) \in A
           \/ (windowsish /\ _canon_case(e.dst, windowsish) \in {Lower(x) : x \in A}))
    /\ KeepsCmd(Lower(Strip(e.command)))

\* A carry-over that does not keep the confidence of the baseline edge.
RECURSIVE CarryOverLossy(_, _, _, _)
CarryOverLossy(g, edges, A, windowsish) ==
    IF edges = <<>> THEN g
    ELSE CarryOverLossy(IF ~edges[1].dynamic /\ CarryOverKeeps(edges[1], A, windowsish)
                        THEN add_edge(g, [edges[1] EXCEPT !.src = _canon_case(@, windowsish),
                                                          !.dst = _canon_case(@, windowsish),
                                                          !.confidence = 700])
                        ELSE g,
                        Drop(edges, 1), A, windowsish)

\* The static carry-over loop of Mapper.run
RECURSIVE CarryOver(_, _, _, _)
CarryOver(g, edges, A, windowsish) ==
    IF edges = <<>> THEN g
    ELSE CarryOver(IF ~edges[1].dynamic /\ CarryOverKeeps(edges[1], A, windowsish)
                   THEN add_edge(g, [edges[1] EXCEPT !.src = _canon_case(@, windowsish),
                                                     !.dst = _canon_case(@, windowsish)])
                   ELSE g,
                   Drop(edges, 1), A, windowsish)

SubstRounds == 5

\* The four spellings of one variable: %k%, !k!, ${k}, $k
SubstVar(out, k, vv) ==
    Replace(Replace(ReplaceI(ReplaceI(out, <<"%">> \o k \o <<"%">>, vv),
                             <<"!">> \o k \o <<"!">>, vv),
                    <<"$", "{">> \o k \o <<"}">>, vv),
            <<"$">> \o k, vv)

\* One pass of Mapper._subst over env.items()
RECURSIVE SubstOnce(_, _)
SubstOnce(out, env) ==
    IF env = <<>> THEN out
    ELSE SubstOnce(SubstVar(out, env[1].name, StripQuotes(env[1].value)), Drop(env, 1))

RECURSIVE SubstLoop(_, _, _)
\* if nxt == out: break
SubstNext(out, nx, env, n) == IF nx = out THEN out ELSE SubstLoop(nx, env, n - 1)

SubstLoop(out, env, n) ==
    IF n = 0 THEN out ELSE SubstNext(out, SubstOnce(out, env), env, n)

\* Mapper._subst
_subst(s, env) == _norm_path(SubstLoop(StripQuotes(s), env, SubstRounds))

\* pairs.sort(key=prec, reverse=True): stable, higher precedence first
RECURSIVE SortByPrec(_)
SortByPrec(pairs) ==
    IF pairs = <<>> THEN <<>>
    ELSE LET mx == CHOOSE m \in {pairs[i].prec : i \in 1..Len(pairs)} :
                       \A i \in 1..Len(pairs) : pairs[i].prec <= m
         IN SelectSeq(pairs, LAMBDA v : v.prec = mx)
            \o SortByPrec(SelectSeq(pairs, LAMBDA v : v.prec # mx))

_sorted_pairs_for(obs, scope) ==
    SortByPrec(SelectSeq(obs.env_vars, LAMBDA v : v.scope = scope))

\* for v in pairs: if name and val and name not in env: env[name] = val
RECURSIVE FillEnv(_, _)
FillEnv(env, pairs) ==
    IF pairs = <<>> THEN env
    ELSE LET v == pairs[1]
             has == \E i \in 1..Len(env) : env[i].name = v.name
         IN FillEnv(IF v.name # <<>> /\ v.value # <<>> /\ ~has
                    THEN Append(env, [name |-> v.name, value |-> v.value]) ELSE env,
                    Drop(pairs, 1))

\* {v["name"]: v["value"] for v in ...}: the last value of a name, at the
\* place of its first occurrence
RECURSIVE DictOf(_, _)
DictOf(env, pairs) ==
    IF pairs = <<>> THEN env
    ELSE LET v == pairs[1]
             has == \E i \in 1..Len(env) : env[i].name = v.name
         IN DictOf(IF has
                   THEN [i \in 1..Len(env) |->
                           IF env[i].name = v.name
                           THEN [name |-> v.name, value |-> v.value] ELSE env[i]]
                   ELSE Append(env, [name |-> v.name, value |-> v.value]),
                   Drop(pairs, 1))

\* _norm_path(os.path.join(os.path.dirname(src), t))
RelTo(src, t) == _norm_path(path_join(dirname(src), t))

\* The candidate as it is when allowed, else relative to the directory of
\* the source when that is allowed, else <<>>
TryTarget(t, rel, A, windowsish) ==
    IF InAllowed(t, A, windowsish) THEN t
    ELSE IF InAllowed(rel, A, windowsish) THEN rel
    ELSE <<>>

\* Mutant: every candidate as it is before any caller-relative form.
HitsAsIsFirst(src, cands, A, windowsish) ==
    SelectSeq(cands \o [i \in 1..Len(cands) |-> RelTo(src, cands[i])],
              LAMBDA t : InAllowed(t, A, windowsish))

\* What the candidates resolve to, in their order
Hits(src, cands, A, windowsish) ==
    SelectSeq([i \in 1..Len(cands) |-> TryTarget(cands[i], RelTo(src, cands[i]), A, windowsish)],
              LAMBDA t : t # <<>>)

FirstHit(hits) == IF hits = <<>> THEN <<>> ELSE hits[1]

\* _resolve_sourced_target of Mapper.run: the target, or <<>> for None
_resolve_sourced_target(obs, src, raw, A, windowsish) ==
    FirstHit(Hits(src,
                  SelectSeq(<<_subst(raw, DictOf(<<>>, SelectSeq(obs.env_vars,
                                                         LAMBDA v : v.scope = src))),
                              _norm_path(raw)>>,
                            LAMBDA t : t # <<>>),
                  A, windowsish))

RECURSIVE FillFromScopes(_, _, _)
FillFromScopes(env, obs, scopes) ==
    IF scopes = <<>> THEN env
    ELSE FillFromScopes(FillEnv(env, _sorted_pairs_for(obs, scopes[1])), obs, Drop(scopes, 1))

Dsts(edges) == [i \in 1..Len(edges) |-> edges[i].dst]

\* The targets of the static source sites of src that resolve
ResolveAll(obs, src, calls, A, windowsish) ==
    SelectSeq([i \in 1..Len(calls) |->
                  _resolve_sourced_target(obs, src, calls[i].raw, A, windowsish)],
              LAMBDA t : t # <<>>)

\* rx.finditer(text) of Mapper._ps_eval_joins from the i-th character on, a
\* match beginning where a line begins: env[dest] = value, whatever env held
RECURSIVE EvalJoins(_, _, _)
EvalJoins(env, text, i) ==
    IF i > Len(text) THEN env
    ELSE IF (i = 1 \/ text[i - 1] = "\n") /\ JoinAt(Drop(text, i - 1))
    THEN EvalJoins(IF JoinOk(Drop(text, i - 1), env)
                   THEN DictSet(env, JoinDest(Drop(text, i - 1)), JoinOf(Drop(text, i - 1), env))
                   ELSE env,
                   text, i + JoinTaken(Drop(text, i - 1)))
    ELSE EvalJoins(env, text, i + 1)

\* Mapper._ps_eval_joins on the file f of the source: the whole text, or env
\* as it is when the file cannot be read
_ps_eval_joins(f, env) ==
    IF f.readable THEN EvalJoins(env, JoinLines(FileLines(f)), 1) ELSE env

\* The files env_for imports from, in the order it visits them: the files the
\* baseline sources, then the files the observed static source sites resolve
\* to
ImportScopes(obs, graph, src, A, windowsish) ==
    Dsts(SelectSeq(graph.edges,
                   LAMBDA e : ~e.dynamic /\ e.kind = "source" /\ e.src = src))
    \o ResolveAll(obs, src,
                  SelectSeq(obs.call_sites,
                            LAMBDA cs : cs.kind = "source" /\ cs.src = src /\ ~cs.dynamic),
                  A, windowsish)

\* Steps 1 to 3 of env_for: the local pairs, then the pairs of the scopes,
\* one scope after the other
EnvVisiting(obs, src, scopes) ==
    FillFromScopes(FillEnv(<<>>, _sorted_pairs_for(obs, src)), obs, scopes)

EnvImported(obs, graph, src, A, windowsish) ==
    EnvVisiting(obs, src, ImportScopes(obs, graph, src, A, windowsish))

\* env_for of Mapper.run, f being the file of src
env_for(obs, graph, src, A, windowsish, f) ==
    IF EndsWith(Lower(src), s_ps1)
    THEN _ps_eval_joins(f, EnvImported(obs, graph, src, A, windowsish))
    ELSE EnvImported(obs, graph, src, A, windowsish)

\* cands of the non-dynamic branch: the substituted target when it differs,
\* then the raw target
Cands(t_sub, t_raw) ==
    (IF t_sub # <<>> /\ t_sub # t_raw THEN <<t_sub>> ELSE <<>>) \o <<t_raw>>

\* The edge of the first candidate that resolves, or an unresolved entry
StaticInsert(g, unresolved, cs, hit, windowsish) ==
    IF hit # <<>>
    THEN [g |-> add_edge(g, Edge(_canon_case(cs.src, windowsish),
                                 _canon_case(hit, windowsish), cs.kind, cs.cmd,
                                 FALSE, TRUE, 900, "static-direct in 2R/4R")),
          unresolved |-> unresolved]
    ELSE [g |-> add_node(g, cs.src),
          unresolved |-> Append(unresolved,
              [src |-> _canon_case(cs.src, windowsish), raw_target |-> cs.raw,
               reason |-> "non-dynamic-unresolved"])]

\* The non-dynamic branch of the call-site loop, without a static baseline
StaticDirect(g, unresolved, cs, env, A, windowsish) ==
    StaticInsert(g, unresolved, cs,
                 FirstHit(Hits(cs.src, Cands(_subst(cs.raw, env), _norm_path(cs.raw)),
                               A, windowsish)),
                 windowsish)

\* The normalised targets of a reply
Normed(resp) ==
    IF resp.kind = "obj" THEN [i \in 1..Len(resp.items) |-> _norm_path(resp.items[i])]
    ELSE <<>>

\* An LLM pass that keeps every proposed target.
MapReplyUnfiltered(resp, targets, why, A, windowsish) ==
    IF resp.kind \in {"error", "list"} THEN [targets |-> targets, why |-> why]
    ELSE [targets |-> Normed(resp),
          why |-> IF resp.reasoning # "" THEN resp.reasoning ELSE why]

\* One LLM pass of the call-site loop: the targets kept and the rationale.
\* An exception (chat raises, or data.get on JSON that is no object) is
\* caught and leaves targets and why as they were.
MapReply(resp, targets, why, A, windowsish) ==
    IF resp.kind \in {"error", "list"} THEN [targets |-> targets, why |-> why]
    ELSE [targets |-> SelectSeq(Normed(resp), LAMBDA t : InAllowed(t, A, windowsish)),
          why |-> IF resp.reasoning # "" THEN resp.reasoning ELSE why]

\* Mutant: a fallback that takes any substituted target of the allow-list.
HeurOfAllowed(t, t_raw, A) == IF t \in A THEN <<t>> ELSE <<>>

\* t != _norm_path(cs.raw) and t in allowed_set
HeurOf(t, t_raw, A) == IF t # t_raw /\ t \in A THEN <<t>> ELSE <<>>

\* The heuristic fallback of the call-site loop
Heuristic(cs, env, A) == HeurOf(_subst(cs.raw, env), _norm_path(cs.raw), A)

\* The insertion loop of the call-site loop
RECURSIVE InsertTargets(_, _, _, _, _, _)
InsertTargets(g, seen, cs, ts, why, windowsish) ==
    IF ts = <<>> THEN [g |-> g, seen |-> seen]
    ELSE LET src_c == _canon_case(cs.src, windowsish)
             t_c == _canon_case(ts[1], windowsish)
             key == <<src_c, t_c, cs.kind>>
         IN IF key \in seen THEN InsertTargets(g, seen, cs, Drop(ts, 1), why, windowsish)
            ELSE InsertTargets(
                     add_edge(g, Edge(src_c, t_c, cs.kind, cs.cmd, cs.dynamic, TRUE, 700, why)),
                     seen \cup {key}, cs, Drop(ts, 1), why, windowsish)

(***************************************************************************)
(* agents.py: Writer, and exporter.py                                      *)
(***************************************************************************)
DedupeKey(e) == <<e.src, e.dst, e.kind, e.command, e.dynamic, e.resolved>>

\* A dedupe that drops the first edge of each key and keeps its repetitions.
RECURSIVE DedupeKeepsRepeats(_, _)
DedupeKeepsRepeats(edges, seen) ==
    IF edges = <<>> THEN <<>>
    ELSE IF DedupeKey(edges[1]) \in seen
    THEN <<edges[1]>> \o DedupeKeepsRepeats(Drop(edges, 1), seen)
    ELSE DedupeKeepsRepeats(Drop(edges, 1), seen \cup {DedupeKey(edges[1])})

\* Writer._dedupe_edges
RECURSIVE _dedupe_edges(_, _)
_dedupe_edges(edges, seen) ==
    IF edges = <<>> THEN <<>>
    ELSE IF DedupeKey(edges[1]) \in seen THEN _dedupe_edges(Drop(edges, 1), seen)
    ELSE <<edges[1]>> \o _dedupe_edges(Drop(edges, 1), seen \cup {DedupeKey(edges[1])})

\* Writer._validate: the messages it logs
_validate(g) ==
    {<<"src", g.edges[i].src>> : i \in {j \in 1..Len(g.edges) : g.edges[j].src \notin g.nodes}}
    \cup {<<"dst", g.edges[i].dst>> : i \in {j \in 1..Len(g.edges) : g.edges[j].dst \notin g.nodes}}

\* exporter.write_artifacts: the nodes and edges of predicted_graph.yaml.
\* command and reason are left out when empty; confidence is written with
\* three decimals, which the thousandths of the model are.
write_artifacts(graph, unresolved, nodes_policy, windows) ==
    LET used == {graph.edges[i].src : i \in 1..Len(graph.edges)}
                \cup {graph.edges[i].dst : i \in 1..Len(graph.edges)}
                \cup {unresolved[i].src : i \in {j \in 1..Len(unresolved) : unresolved[j].src # <<>>}}
        kept == IF nodes_policy = "participating" THEN graph.nodes \cap used ELSE graph.nodes
    IN [nodes |-> SortedStrs({_canon_rel(n, windows) : n \in kept}),
        edges |-> [i \in 1..Len(graph.edges) |->
                     [graph.edges[i] EXCEPT !.src = _canon_rel(@, windows),
                                            !.dst = _canon_rel(@, windows)]]]

NoYaml == [nodes |-> <<>>, edges |-> <<>>]

(***************************************************************************)
(* The state of a run                                                      *)
(***************************************************************************)
ToolBudget == 1
MaxLoops == 1
FilesBudget == 1
MaxPlanList == 1
MaxHints == 1
SnippetLen == 1000

VARIABLES
    bundle,      \* index of the bundle in BundleCatalogue
    roles,       \* "2R" or "4R"
    provider,    \* cfg.provider of the LLM client: "disabled" or "openai"
    hints,       \* AgentRunner.use_llm_reader_hints
    budget,      \* max_tool_calls, max_loops, max_files read from the environment
    pc,          \* where the run is
    run,         \* 1 for the first run on the baseline, 2 for the repeated run
    base,        \* the baseline graph of Scanner.scan
    manifest,    \* ReadManifest: files and worklist
    order,       \* the files Reader.run peeks, in order
    rIdx,        \* index of the next file of order
    obs,         \* ObservationBatch: files, env_vars, call_sites
    g,           \* the graph of Mapper.run
    unresolved,  \* the unresolved list of Mapper.run
    seen,        \* the (src, dst, kind) keys of Mapper.run
    sIdx,        \* index of the next call site
    targets,     \* targets of the call site at hand
    why,         \* rationale of the call site at hand
    proposed,    \* the targets the last LLM reply proposed, normalised
    allowed,     \* allowed_set of Mapper.run
    loopsLeft,   \* budget["max_loops"] as AgentRunner.run counts it down
    llmCalls,    \* requests sent to the LLM provider
    yaml,        \* predicted_graph.yaml as written last
    yaml1,       \* predicted_graph.yaml of the first run
    fn           \* a function of the code applied on its own: name, args, out, done

vars == <<bundle, roles, provider, hints, budget, pc, run, base, manifest, order, rIdx,
          obs, g, unresolved, seen, sIdx, targets, why, proposed, allowed, loopsLeft, llmCalls,
          yaml, yaml1, fn>>

config == <<bundle, roles, provider, hints, budget>>

B == BundleCatalogue[bundle]
\* windowsish of Mapper.run and windows of write_artifacts: the same try as
\* Scanner._is_windows_bundle
Windowsish == _is_windows_bundle(B.meta)
FileOf(path) == B.files[CHOOSE i \in 1..Len(B.files) : B.files[i].path = path]

NoObs == [files |-> <<>>, env_vars |-> <<>>, call_sites |-> <<>>]
NoManifest == [files |-> <<>>, worklist |-> <<>>]

\* One more request when the provider is live.
Called(n) == IF provider = "openai" THEN llmCalls + n ELSE llmCalls

\* The hints a live LLM may give.
HintPool == {[name |-> n_Q, value |-> v_u], [name |-> n_D, value |-> v_u_space_x]}

\* No function is applied on its own during a run of the resolver.
NoCall == [name |-> "", args |-> <<>>, out |-> <<>>, done |-> FALSE]

\* The state before the scan, whatever the configuration.
Fresh ==
    /\ run = 1
    /\ base = EmptyGraph
    /\ manifest = NoManifest
    /\ order = <<>>
    /\ rIdx = 1
    /\ obs = NoObs
    /\ g = EmptyGraph
    /\ unresolved = <<>>
    /\ seen = {}
    /\ sIdx = 1
    /\ targets = <<>>
    /\ why = ""
    /\ proposed = <<>>
    /\ allowed = {}
    /\ loopsLeft = 0
    /\ llmCalls = 0
    /\ yaml = NoYaml
    /\ yaml1 = NoYaml

Init ==
    /\ bundle \in 1..NumBundles
    /\ roles \in {"2R", "4R"}
    /\ provider \in {"disabled", "openai"}
    /\ hints \in BOOLEAN
    /\ budget \in [max_tool_calls : 1..ToolBudget, max_loops : 0..MaxLoops,
                   max_files : 0..FilesBudget]
    /\ pc = "start"
    /\ Fresh
    /\ fn = NoCall

(***************************************************************************)
(* Scanner.scan and scan_to_artifacts                                      *)
(***************************************************************************)
\* Scanner.scan on the bundle: the baseline graph, or the exception of a parser.
Scan ==
    /\ pc = "start"
    /\ \E r \in {scan(bundle)} :
          /\ base' = r.graph
          /\ pc' = IF r.raised THEN "scan_crashed" ELSE "scanned"
    /\ UNCHANGED <<config, fn, run, manifest, order, rIdx, obs, g, unresolved, seen, sIdx,
                   targets, why, proposed, allowed, loopsLeft, llmCalls, yaml, yaml1>>

\* The nodes write_artifacts leaves in graph.nodes
KeptNodes(graph, unres, nodes_policy) ==
    LET used == {graph.edges[i].src : i \in 1..Len(graph.edges)}
                \cup {graph.edges[i].dst : i \in 1..Len(graph.edges)}
                \cup {unres[i].src : i \in {j \in 1..Len(unres) : unres[j].src # <<>>}}
    IN IF nodes_policy = "participating" THEN graph.nodes \cap used ELSE graph.nodes

\* write_artifacts on the scanned graph, as Scanner.scan_to_artifacts calls it
\* (policy "participating", nothing unresolved) or under the policy "all".
ExportScan ==
    /\ pc = "scanned"
    /\ \E nodes_policy \in {"participating", "all"} :
          /\ yaml' = write_artifacts(base, <<>>, nodes_policy, Windowsish)
          /\ base' = [base EXCEPT !.nodes = KeptNodes(base, <<>>, nodes_policy)]
    /\ pc' = "scan_exported"
    /\ UNCHANGED <<config, fn, run, manifest, order, rIdx, obs, g, unresolved, seen, sIdx,
                   targets, why, proposed, allowed, loopsLeft, llmCalls, yaml1>>

(***************************************************************************)
(* AgentRunner.run                                                         *)
(***************************************************************************)
\* reader.use_llm_hints: the policy of Planner.run switches the hints off in 4R.
use_llm_hints == IF roles = "4R" THEN FALSE ELSE hints

PlanReplies ==
    IF provider = "disabled" \/ PlanPairs(base) = <<>> THEN {Canned("worklist")}
    ELSE Replies({base.edges[i].src : i \in 1..Len(base.edges)}, MaxPlanList)

\* Planner.run with one enumeration order of seeds | entry and one reply of
\* the LLM.  An exception of _llm_plan leaves Planner.run and AgentRunner.run.
PlannerWith(ord, resp) ==
    /\ pc = "scanned"
    /\ roles = "4R"
    /\ \E r \in {_build_worklist(B, base, ord, resp)} :
          /\ llmCalls' = Called(IF r.called THEN 1 ELSE 0)
          /\ IF r.raised
             THEN /\ pc' = "planner_crashed"
                  /\ UNCHANGED <<manifest, order>>
             ELSE /\ pc' = "reading"
                  /\ manifest' = [files |-> PlannerFiles(B), worklist |-> r.worklist]
                  /\ order' = ReadOrder(manifest'.files, manifest'.worklist,
                                        budget.max_files)
    /\ loopsLeft' = budget.max_loops
    /\ rIdx' = 1
    /\ obs' = NoObs
    /\ UNCHANGED <<config, fn, run, base, g, unresolved, seen, sIdx, targets, why, proposed,
                   allowed, yaml, yaml1>>

\* 4R: Planner.run
PlannerRun ==
    \E ord \in Orders(WorklistBase(B)), resp \in PlanReplies : PlannerWith(ord, resp)

\* 2R: the manifest AgentRunner.run builds itself, without a worklist.
BuildManifest2R ==
    /\ pc = "scanned"
    /\ roles = "2R"
    /\ manifest' = [files |-> RunnerFiles2R(B), worklist |-> <<>>]
    /\ order' = ReadOrder(manifest'.files, <<>>, budget.max_files)
    /\ loopsLeft' = budget.max_loops
    /\ rIdx' = 1
    /\ obs' = NoObs
    /\ pc' = "reading"
    /\ UNCHANGED <<config, fn, run, base, g, unresolved, seen, sIdx, targets, why, proposed,
                   allowed, llmCalls, yaml, yaml1>>

\* The languages whose files Reader.run takes observations from
ReadLangs == {"sh", "cmd", "ps1"}

\* The text Reader.run takes from a file: the peek window, "" when the file
\* cannot be read.  The text of a file of another language is not used.
ReadText(it, f) ==
    IF _lang(it.path) \in ReadLangs /\ f.readable THEN PeekText(f, it.peek) ELSE <<>>

\* text.splitlines()
LinesOf(text) == IF text = <<>> THEN <<>> ELSE SplitOn(text, "\n")

\* The env_vars and call_sites Reader.run records for one file
ReadOne(path, lang, text, lines, hintvars) ==
    IF lang = "sh"
    THEN [env_vars |-> ReadEnv(path, lines, hintvars),
          call_sites |-> ReadSites(path, text, lines)]
    ELSE IF lang = "cmd" THEN ReadCmd(path, lines)
    ELSE IF lang = "ps1" THEN ReadPsText(path, text, lines)
    ELSE [env_vars |-> <<>>, call_sites |-> <<>>]

\* The batch with the observations of one more file
ObsWith(o, path, r) ==
    [files |-> Append(o.files, path),
     env_vars |-> o.env_vars \o r.env_vars,
     call_sites |-> o.call_sites \o r.call_sites]

\* if self.use_llm_hints and self.client and text.strip(), for the file at hand
ReadAsk ==
    /\ _lang(order[rIdx].path) = "sh"
    /\ use_llm_hints
    /\ Strip(ReadText(order[rIdx], FileOf(order[rIdx].path))) # <<>>

HintReplies ==
    IF ReadAsk /\ provider = "openai" THEN Replies(HintPool, MaxHints) ELSE {Canned("hints")}

\* Reader.run on the next file of the order, with one reply of the LLM.
ReadFileWith(resp) ==
    /\ pc = "reading"
    /\ rIdx <= Len(order)
    /\ \E it \in {order[rIdx]} :
       \E text \in {ReadText(it, FileOf(it.path))} :
          obs' = ObsWith(obs, it.path,
                         ReadOne(it.path, _lang(it.path), text, LinesOf(text),
                                 _llm_read_hints(resp)))
    /\ llmCalls' = Called(IF ReadAsk THEN 1 ELSE 0)
    /\ rIdx' = rIdx + 1
    /\ UNCHANGED <<config, fn, pc, run, base, manifest, order, g, unresolved, seen, sIdx,
                   targets, why, proposed, allowed, loopsLeft, yaml, yaml1>>

\* Reader.run, one file of the order at a time.
ReadFile ==
    /\ pc = "reading"
    /\ rIdx <= Len(order)
    /\ \E resp \in HintReplies : ReadFileWith(resp)

\* Mutant: a carry-over that filters the edges of the baseline in place.
MapperBeginInPlace ==
    /\ pc = "reading"
    /\ rIdx > Len(order)
    /\ allowed' = allowed_set(B)
    /\ g' = CarryOver(EmptyGraph, base.edges, allowed', Windowsish)
    /\ base' = [base EXCEPT !.edges = g'.edges]
    /\ unresolved' = <<>>
    /\ seen' = {}
    /\ sIdx' = 1
    /\ targets' = <<>>
    /\ why' = ""
    /\ proposed' = <<>>
    /\ pc' = "site"
    /\ UNCHANGED <<config, fn, run, manifest, order, rIdx, obs, loopsLeft, llmCalls,
                   yaml, yaml1>>

\* Mapper.run up to the call-site loop: a new graph and the static carry-over.
MapperBegin ==
    /\ pc = "reading"
    /\ rIdx > Len(order)
    /\ allowed' = allowed_set(B)
    /\ g' = CarryOver(EmptyGraph, base.edges, allowed', Windowsish)
    /\ unresolved' = <<>>
    /\ seen' = {}
    /\ sIdx' = 1
    /\ targets' = <<>>
    /\ why' = ""
    /\ proposed' = <<>>
    /\ pc' = "site"
    /\ UNCHANGED <<config, fn, run, base, manifest, order, rIdx, obs, loopsLeft, llmCalls,
                   yaml, yaml1>>

has_static_baseline == \E i \in 1..Len(base.edges) : ~base.edges[i].dynamic

CurrentSite == obs.call_sites[sIdx]
CurrentEnv ==
    env_for(obs, base, CurrentSite.src, allowed, Windowsish, FileOf(CurrentSite.src))

\* A call site that is not dynamic.
MapperStatic ==
    /\ pc = "site"
    /\ sIdx <= Len(obs.call_sites)
    /\ ~CurrentSite.dynamic
    /\ IF has_static_baseline
       THEN /\ g' = add_node(g, CurrentSite.src)
            /\ UNCHANGED unresolved
       ELSE \E r \in {StaticDirect(g, unresolved, CurrentSite, CurrentEnv, allowed,
                                   Windowsish)} :
               g' = r.g /\ unresolved' = r.unresolved
    /\ sIdx' = sIdx + 1
    /\ UNCHANGED <<config, fn, pc, run, base, manifest, order, rIdx, obs, seen, targets, why,
                   proposed, allowed, loopsLeft, llmCalls, yaml, yaml1>>

MapReplies ==
    IF provider = "disabled" THEN {Canned("targets")}
    ELSE Failures \cup {TargetReplies[i] : i \in 1..NumTargetReplies}

Proposed(resp) == Normed(resp)

\* Mapper._make_observations: the snippet of the source file.  The directory
\* listings only add to the prompt.
_make_observations(src) ==
    [src_snippet |-> IF FileOf(src).readable /\ _lang(src) \in ReadLangs
                     THEN PeekText(FileOf(src), SnippetLen) ELSE <<>>]

\* The first LLM pass on a dynamic call site, with one reply of the LLM.
MapperLLM1With(resp) ==
    /\ pc = "site"
    /\ sIdx <= Len(obs.call_sites)
    /\ CurrentSite.dynamic
    /\ \E r \in {MapReply(resp, <<>>, "", allowed, Windowsish)} :
          /\ targets' = r.targets
          /\ why' = r.why
          /\ proposed' = Proposed(resp)
          /\ pc' = IF r.targets = <<>> /\ _make_observations(CurrentSite.src).src_snippet # <<>>
                   THEN "pass2" ELSE "accept"
    /\ llmCalls' = Called(1)
    /\ UNCHANGED <<config, fn, run, base, manifest, order, rIdx, obs, g, unresolved, seen,
                   sIdx, allowed, loopsLeft, yaml, yaml1>>

\* A dynamic call site: the first LLM pass.
MapperLLM1 == \E resp \in MapReplies : MapperLLM1With(resp)

\* The second LLM pass, with observations, with one reply of the LLM.
MapperLLM2With(resp) ==
    /\ pc = "pass2"
    /\ \E r \in {MapReply(resp, targets, why, allowed, Windowsish)} :
          /\ targets' = r.targets
          /\ why' = r.why
          /\ proposed' = Proposed(resp)
    /\ pc' = "accept"
    /\ llmCalls' = Called(1)
    /\ UNCHANGED <<config, fn, run, base, manifest, order, rIdx, obs, g, unresolved, seen,
                   sIdx, allowed, loopsLeft, yaml, yaml1>>

\* A dynamic call site: the second LLM pass.
MapperLLM2 == \E resp \in MapReplies : MapperLLM2With(resp)

\* An accept step that falls back on a guessed target.
AcceptedGuess(ts, w, h) ==
    [targets |-> IF ts # <<>> THEN ts ELSE IF h # <<>> THEN h ELSE << p_nope_sh >>,
     why |-> IF ts = <<>> /\ h # <<>> THEN "local var substitution" ELSE w]

\* Mutant: the heuristic is consulted before the targets of the LLM.
AcceptedHeuristicFirst(ts, w, h) ==
    [targets |-> IF h # <<>> THEN h ELSE ts,
     why |-> IF h # <<>> THEN "local var substitution" ELSE w]

\* The targets and the rationale after the heuristic fallback h, which is
\* consulted when the LLM passes left no target
Accepted(ts, w, h) ==
    [targets |-> IF ts = <<>> THEN h ELSE ts,
     why |-> IF ts = <<>> /\ h # <<>> THEN "local var substitution" ELSE w]

\* The call-site loop from the heuristic fallback on, for a dynamic call site
\* the LLM passes left with the targets ts and the rationale w
AcceptSite(st, cs, ts, w, env, A, windowsish) ==
    LET a == Accepted(ts, w, Heuristic(cs, env, A))
    IN IF a.targets # <<>>
       THEN LET r == InsertTargets(st.g, st.seen, cs, a.targets, a.why, windowsish)
            IN [st EXCEPT !.g = r.g, !.seen = r.seen]
       ELSE [st EXCEPT !.g = add_node(@, cs.src),
                       !.unresolved = Append(@,
                           [src |-> _canon_case(cs.src, windowsish),
                            raw_target |-> cs.raw,
                            reason |-> "no-targets-from-LLM"])]

\* A dynamic call site: heuristic fallback, then the edges or the unresolved entry.
MapperAccept ==
    /\ pc = "accept"
    /\ \E cs \in {CurrentSite} :
       \E a \in {Accepted(targets, why, Heuristic(cs, CurrentEnv, allowed))} :
          IF a.targets # <<>>
          THEN /\ \E r \in {InsertTargets(g, seen, cs, a.targets, a.why, Windowsish)} :
                     g' = r.g /\ seen' = r.seen
               /\ UNCHANGED unresolved
          ELSE /\ g' = add_node(g, cs.src)
               /\ unresolved' = Append(unresolved,
                                   [src |-> _canon_case(cs.src, Windowsish),
                                    raw_target |-> cs.raw,
                                    reason |-> "no-targets-from-LLM"])
               /\ UNCHANGED seen
    /\ sIdx' = sIdx + 1
    /\ targets' = <<>>
    /\ why' = ""
    /\ proposed' = <<>>
    /\ pc' = "site"
    /\ UNCHANGED <<config, fn, run, base, manifest, order, rIdx, obs, allowed, loopsLeft,
                   llmCalls, yaml, yaml1>>

MapperDone == pc = "site" /\ sIdx > Len(obs.call_sites)

\* The extra loop is an if, taken at most once in a run: max_loops still
\* holds the value of the budget.
ReLoopDue == unresolved # <<>> /\ loopsLeft > 0 /\ loopsLeft = budget.max_loops

\* it["peek"] = [(0, 8192)]; it["priority"] = 200 for the files of the
\* unresolved sources
Promote(files, promote) ==
    [i \in 1..Len(files) |->
        IF files[i].path \in promote
        THEN [files[i] EXCEPT !.peek = PeekPromoted, !.priority = PrioPromoted]
        ELSE files[i]]

\* The extra loop of AgentRunner.run: promote the unresolved sources and
\* read again.
ReLoop ==
    /\ MapperDone
    /\ ReLoopDue
    /\ loopsLeft' = loopsLeft - 1
    /\ manifest' = [manifest EXCEPT
                       !.files = Promote(@, {unresolved[i].src : i \in 1..Len(unresolved)})]
    /\ order' = ReadOrder(manifest'.files, manifest.worklist, budget.max_files)
    /\ rIdx' = 1
    /\ obs' = NoObs
    /\ pc' = "reading"
    /\ UNCHANGED <<config, fn, run, base, g, unresolved, seen, sIdx, targets, why, proposed,
                   allowed, llmCalls, yaml, yaml1>>

\* The export of AgentRunner.run: Writer.run in 4R (dedupe, validate, write,
\* report), write_artifacts alone in 2R.
Export ==
    /\ MapperDone
    /\ ~ReLoopDue
    /\ \E g1 \in {IF roles = "4R" THEN [g EXCEPT !.edges = _dedupe_edges(@, {})] ELSE g} :
          /\ yaml' = write_artifacts(g1, unresolved, "participating", Windowsish)
          /\ g' = [g1 EXCEPT !.nodes = KeptNodes(g1, unresolved, "participating")]
    /\ llmCalls' = Called(IF roles = "4R" THEN 1 ELSE 0)
    /\ pc' = "exported"
    /\ UNCHANGED <<config, fn, run, base, manifest, order, rIdx, obs, unresolved, seen, sIdx,
                   targets, why, proposed, allowed, loopsLeft, yaml1>>

\* The resolver is run once more on the same bundle, baseline and
\* configuration, with the LLM disabled.
Rerun ==
    /\ pc = "exported"
    /\ run = 1
    /\ provider = "disabled"
    /\ run' = 2
    /\ yaml1' = yaml
    /\ pc' = "scanned"
    /\ UNCHANGED <<config, fn, base, manifest, order, rIdx, obs, g, unresolved, seen, sIdx,
                   targets, why, proposed, allowed, loopsLeft, llmCalls, yaml>>

Next ==
    \/ Scan
    \/ ExportScan
    \/ PlannerRun
    \/ BuildManifest2R
    \/ ReadFile
    \/ MapperBegin
    \/ MapperStatic
    \/ MapperLLM1
    \/ MapperLLM2
    \/ MapperAccept
    \/ ReLoop
    \/ Export
    \/ Rerun

Spec == Init /\ [][Next]_vars

\* The resolver on the bundles of the platform cases.
PlatformInit ==
    /\ bundle \in PlatformBundles
    /\ roles \in {"2R", "4R"}
    /\ provider \in {"disabled", "openai"}
    /\ hints \in BOOLEAN
    /\ budget \in [max_tool_calls : 1..ToolBudget, max_loops : 0..MaxLoops,
                   max_files : 0..FilesBudget]
    /\ pc = "start"
    /\ Fresh
    /\ fn = NoCall

PlatformSpec == PlatformInit /\ [][Next]_vars

(***************************************************************************)
(* The functions of the code applied on their own to bounded inputs        *)
(***************************************************************************)
\* The variables of a run of the resolver.
resolver ==
    <<config, pc, run, base, manifest, order, rIdx, obs, g, unresolved, seen, sIdx,
      targets, why, proposed, allowed, loopsLeft, llmCalls, yaml, yaml1>>

\* No run of the resolver is under way.
NoRun ==
    /\ bundle = 1
    /\ roles = "2R"
    /\ provider = "disabled"
    /\ hints = FALSE
    /\ budget = [max_tool_calls |-> 1, max_loops |-> 0, max_files |-> 0]
    /\ pc = "fn"
    /\ Fresh

Call(name, args) == [name |-> name, args |-> args, out |-> <<>>, done |-> FALSE]

\* The path strings canon is applied to: every string of dots, slashes and a
\* letter up to MaxPathLen characters.
MaxPathLen == 5
PathAlphabet == {".", "/", "a"}
CanonCalls == {Call("canon", <<x>>) : x \in SeqsUpTo(PathAlphabet, MaxPathLen)}

\* utils.canon applied to a path
ApplyCanon ==
    /\ pc = "fn"
    /\ fn.name = "canon"
    /\ ~fn.done
    /\ fn' = [fn EXCEPT !.out = canon(fn.args[1]), !.done = TRUE]
    /\ UNCHANGED resolver

\* The raw targets and the environments Mapper._subst is applied to.  An env
\* is a dict: its names differ.  The values are values the Reader records
\* from assignments such as D=u, D=$E and D=$D/x.
MaxEnvLen == 2
SubstRaws ==
    { <<"$","D","/","y",".","s","h">>, <<"$","{","D","}","/","y",".","s","h">>,
      <<"%","D","%","/","y",".","s","h">>, <<"$","E","/","y",".","s","h">>,
      <<"u","/","y",".","s","h">> }
SubstPairs ==
    [name : {<<"D">>, <<"E">>},
     value : {<<"u">>, <<"$","E">>, <<"$","D">>, <<"$","D","/","x">>}]
SubstEnvs ==
    {e \in SeqsUpTo(SubstPairs, MaxEnvLen) :
        \A i, j \in 1..Len(e) : i # j => e[i].name # e[j].name}
SubstCalls == {Call("_subst", <<s, e>>) : s \in SubstRaws, e \in SubstEnvs}

\* Mapper._subst applied to a raw target and an env
ApplySubst ==
    /\ pc = "fn"
    /\ fn.name = "_subst"
    /\ ~fn.done
    /\ fn' = [fn EXCEPT !.out = _subst(fn.args[1], fn.args[2]), !.done = TRUE]
    /\ UNCHANGED resolver

ExpandRaws ==
    { <<"%","P","%">>, <<"!","D","!","\\","%","%","F">>, <<"\"","%","D","%","\\","x",".","c","m","d","\"">>,
      <<"u","\\","x",".","c","m","d">> }
ExpandPairs ==
    [name : {<<"D">>, <<"P">>},
     value : {<<"u">>, <<"%","P","%",";","x">>, <<"%","D","%">>, <<"!","P","!">>}]
ExpandEnvs ==
    {e \in SeqsUpTo(ExpandPairs, MaxEnvLen) :
        \A i, j \in 1..Len(e) : i # j => e[i].name # e[j].name}
LoopVars ==
    { <<>>, <<[name |-> <<"F">>, value |-> <<"x",".","c","m","d">>]>>,
      <<[name |-> <<"F">>, value |-> <<"%","D","%">>]>> }
ExpandCalls ==
    {Call("_expand_cmd_value", <<s, e, l>>) : s \in ExpandRaws, e \in ExpandEnvs, l \in LoopVars}

\* Reader._expand_cmd_value applied to a value, an env and the loop variables
ApplyExpand ==
    /\ pc = "fn"
    /\ fn.name = "_expand_cmd_value"
    /\ ~fn.done
    /\ fn' = [fn EXCEPT !.out = _expand_cmd_value(fn.args[1], fn.args[2], fn.args[3]),
                        !.done = TRUE]
    /\ UNCHANGED resolver

\* The non-dynamic call sites of a/run.sh, the envs and the allow-lists the
\* direct resolution is applied to: a target with and without a variable the
\* env binds, and every set of files the candidates can name.
DirectRaws ==
    { <<"%","D","%","/","x",".","s","h">>, <<"x",".","s","h">>, <<"X",".","s","h">> }
DirectEnvs == { <<>>, <<[name |-> n_D, value |-> v_t]>> }
DirectFiles ==
    { p_t_x_sh, <<"a","/","t","/","x",".","s","h">>, <<"%","D","%","/","x",".","s","h">>,
      <<"x",".","s","h">>, <<"a","/","x",".","s","h">> }
DirectSite(raw) ==
    [src |-> p_a_run_sh, raw |-> raw, cmd |-> w_bash \o raw, kind |-> "call",
     dynamic |-> FALSE]
DirectCalls ==
    {Call("StaticDirect", <<DirectSite(raw), e, A, w>>) :
        raw \in DirectRaws, e \in DirectEnvs, A \in SUBSET DirectFiles, w \in BOOLEAN}

\* The non-dynamic branch of Mapper.run without a static baseline, applied
\* to a call site, its env and an allow-list, on an empty graph
ApplyDirect ==
    /\ pc = "fn"
    /\ fn.name = "StaticDirect"
    /\ ~fn.done
    /\ fn' = [fn EXCEPT !.out = StaticDirect(EmptyGraph, <<>>, fn.args[1], fn.args[2],
                                             fn.args[3], fn.args[4]),
                        !.done = TRUE]
    /\ UNCHANGED resolver

\* The dynamic call sites, the envs and the allow-lists the fallback is
\* applied to
FallbackEnvs == DirectEnvs \cup { <<[name |-> n_D, value |-> <<"T">>]>> }
FallbackSite(raw) == [DirectSite(raw) EXCEPT !.dynamic = TRUE]
FallbackCalls ==
    {Call("AcceptSite", <<FallbackSite(raw), e, A, w>>) :
        raw \in DirectRaws, e \in FallbackEnvs, A \in SUBSET DirectFiles, w \in BOOLEAN}

\* The dynamic branch of Mapper.run after LLM passes that gave no target,
\* applied to a call site, its env and an allow-list, on an empty graph
ApplyFallback ==
    /\ pc = "fn"
    /\ fn.name = "AcceptSite"
    /\ ~fn.done
    /\ fn' = [fn EXCEPT !.out = AcceptSite([g |-> EmptyGraph, unresolved |-> <<>>,
                                            seen |-> {}],
                                           fn.args[1], <<>>, "", fn.args[2],
                                           fn.args[3], fn.args[4]),
                        !.done = TRUE]
    /\ UNCHANGED resolver

FnInit ==
    /\ NoRun
    /\ \/ fn \in CanonCalls
       \/ fn \in SubstCalls
       \/ fn \in ExpandCalls
       \/ fn \in DirectCalls
       \/ fn \in FallbackCalls

FnNext ==
    \/ ApplyCanon
    \/ ApplySubst
    \/ ApplyExpand
    \/ ApplyDirect
    \/ ApplyFallback

FnSpec == FnInit /\ [][FnNext]_vars

(***************************************************************************)
(* Properties                                                              *)
(***************************************************************************)
\* The static baseline edges the carry-over filter of Mapper.run keeps.
KeptStatic(i) ==
    ~base.edges[i].dynamic /\ CarryOverKeeps(base.edges[i], allowed, Windowsish)

\* The Mapper has built or is building its graph.
Mapping == pc \in {"site", "pass2", "accept", "exported"}

\* C1 as stated: every static edge of the baseline is in the exported graph
\* with the same src, dst, kind, command, dynamic, resolved, confidence and
\* reason.
C1_EveryStaticPreserved ==
    pc = "exported" =>
        \A i \in 1..Len(base.edges) :
            ~base.edges[i].dynamic =>
                \E j \in 1..Len(yaml.edges) : yaml.edges[j] = base.edges[i]

\* C1 amended: every static edge of the baseline that passes the carry-over
\* filter is in the graph of the Mapper with the same eight fields, in 2R and
\* in 4R, in the first pass and after the re-loop, and is in the final output
\* with the same eight fields.
C1_FilteredStaticPreserved ==
    /\ Mapping =>
          \A i \in 1..Len(base.edges) :
              KeptStatic(i) => \E j \in 1..Len(g.edges) : g.edges[j] = base.edges[i]
    /\ pc = "exported" =>
          \A i \in 1..Len(base.edges) :
              KeptStatic(i) =>
                  \E j \in 1..Len(yaml.edges) :
                      /\ yaml.edges[j].src = base.edges[i].src
                      /\ yaml.edges[j].dst = base.edges[i].dst
                      /\ yaml.edges[j].kind = base.edges[i].kind
                      /\ yaml.edges[j].command = base.edges[i].command
                      /\ yaml.edges[j].dynamic = base.edges[i].dynamic
                      /\ yaml.edges[j].resolved = base.edges[i].resolved
                      /\ yaml.edges[j].confidence = base.edges[i].confidence
                      /\ yaml.edges[j].reason = base.edges[i].reason

\* A run that took the re-loop and exported, whose baseline holds a static
\* edge the filter keeps and one it drops.
C1_Witness ==
    /\ pc = "exported"
    /\ loopsLeft < budget.max_loops
    /\ \E i \in 1..Len(base.edges) : KeptStatic(i)
    /\ \E i \in 1..Len(base.edges) : ~base.edges[i].dynamic /\ ~KeptStatic(i)

\* C2: every exported edge that is dynamic and resolved has a dst in the
\* allow-list (without regard to case on a Windows bundle only), and the
\* targets kept after an LLM pass are exactly the proposed targets that are in
\* the allow-list: a proposed target outside it is dropped.
C2_DynamicInAllowList ==
    /\ \A j \in 1..Len(yaml.edges) :
          (yaml.edges[j].dynamic /\ yaml.edges[j].resolved) =>
              IF Windowsish THEN yaml.edges[j].dst \in {Lower(x) : x \in allowed}
              ELSE yaml.edges[j].dst \in allowed
    /\ \A j \in 1..Len(g.edges) :
          (g.edges[j].dynamic /\ g.edges[j].resolved) =>
              IF Windowsish THEN g.edges[j].dst \in {Lower(x) : x \in allowed}
              ELSE g.edges[j].dst \in allowed
    /\ pc \in {"pass2", "accept"} =>
          \A i \in 1..Len(targets) :
              IF Windowsish THEN Lower(targets[i]) \in {Lower(x) : x \in allowed}
              ELSE targets[i] \in allowed

\* The LLM proposed a target outside the allow-list next to one inside it,
\* after an earlier site gave a dynamic resolved edge.
C2_Witness ==
    /\ pc = "accept"
    /\ targets # <<>>
    /\ \E i \in 1..Len(proposed) : ~InAllowed(proposed[i], allowed, Windowsish)
    /\ \E j \in 1..Len(g.edges) : g.edges[j].dynamic /\ g.edges[j].resolved

\* C3 as stated: once the LLM calls made have reached max_tool_calls, an LLM
\* pass of the Mapper sends no request.
C3_NoCallBeyondBudget ==
    [][(pc \in {"site", "pass2"} /\ pc' \in {"pass2", "accept"}
           /\ llmCalls >= budget.max_tool_calls)
          => llmCalls' = llmCalls]_vars

\* C4 as stated: after an export, src and dst of every edge written are in
\* the node list written, under both node policies.
C4_EndpointsAreNodes ==
    pc \in {"exported", "scan_exported"} =>
        \A j \in 1..Len(yaml.edges) :
            /\ yaml.edges[j].src \in Range(yaml.nodes)
            /\ yaml.edges[j].dst \in Range(yaml.nodes)

\* C5 as stated: no two exported edges are equal under the dedupe key, in 2R
\* and in 4R.
C5_NoDuplicateEdges ==
    pc = "exported" =>
        \A i, j \in 1..Len(yaml.edges) :
            i < j => DedupeKey(yaml.edges[i]) # DedupeKey(yaml.edges[j])

\* C6: every static edge of the baseline that passes the carry-over filter is
\* among the edges written to predicted_graph.yaml.
C6_FilteredStaticExported ==
    pc = "exported" =>
        \A i \in 1..Len(base.edges) :
            KeptStatic(i) => \E j \in 1..Len(yaml.edges) : yaml.edges[j] = base.edges[i]

\* A 4R export of a baseline in which an edge the filter keeps occurs twice,
\* so that the Writer had a duplicate to drop.
C6_Witness ==
    /\ pc = "exported"
    /\ roles = "4R"
    /\ \E i, k \in 1..Len(base.edges) :
          i < k /\ KeptStatic(i) /\ base.edges[i] = base.edges[k]
    /\ \A i, j \in 1..Len(yaml.edges) :
          i < j => DedupeKey(yaml.edges[i]) # DedupeKey(yaml.edges[j])

\* An object with an empty list: what the LLM returns when it has nothing.
EmptyReply == Response("obj", <<>>, "")

\* A transport error, text that is no JSON, and an object without the field.
FailedReplies == {Response(k, <<>>, "") : k \in {"error", "text", "nofield"}}

\* C7 as stated: in each of the three prompt roles a transport error, a
\* non-JSON reply and a reply without the field have the effect of an empty
\* reply: the phase ends as it ends on an empty result and raises nothing.
C7_FailedReplyIsEmpty ==
    [][provider = "openai" =>
          \A resp \in FailedReplies :
              /\ (pc = "scanned" /\ roles = "4R" /\ PlanPairs(base) # <<>>) =>
                    \A ord \in Orders(WorklistBase(B)) :
                        PlannerWith(ord, resp) => PlannerWith(ord, EmptyReply)
              /\ (pc = "reading" /\ rIdx <= Len(order)) =>
                    ((ReadAsk /\ ReadFileWith(resp)) => ReadFileWith(EmptyReply))
              /\ MapperLLM1With(resp) => MapperLLM1With(EmptyReply)
              /\ MapperLLM2With(resp) => MapperLLM2With(EmptyReply)]_vars

\* C8 as stated: no exception of a parser leaves Scanner.scan.
C8_ScanNeverRaises == pc # "scan_crashed"

\* C9: when neither LLM pass nor the heuristic gave a target in the
\* allow-list, the step that closes the call site adds no edge and appends
\* exactly one entry with the src, the raw target and the reason
\* "no-targets-from-LLM" to the unresolved list.
C9_UnresolvedSite ==
    [][(pc = "accept" /\ targets = <<>>
           /\ Heuristic(CurrentSite, CurrentEnv, allowed) = <<>>)
          => /\ g'.edges = g.edges
             /\ unresolved' = Append(unresolved,
                                  [src |-> _canon_case(CurrentSite.src, Windowsish),
                                   raw_target |-> CurrentSite.raw,
                                   reason |-> "no-targets-from-LLM"])]_vars

\* A dynamic site was closed without a target after both LLM passes of a
\* live provider.
C9_Witness ==
    /\ pc = "site"
    /\ provider = "openai"
    /\ llmCalls >= 2
    /\ \E i \in 1..Len(unresolved) : unresolved[i].reason = "no-targets-from-LLM"

\* C10 as stated: the second run on the same bundle, baseline and
\* configuration, with the LLM disabled, writes the predicted_graph.yaml the
\* first run wrote.
C10_SameOutputTwice == (run = 2 /\ pc = "exported") => yaml = yaml1

\* C11 as stated: canon applied to a path canon returned gives that path
\* again, canon(canon(x)) = canon(x).
C11_CanonIdempotent ==
    (fn.name = "canon" /\ fn.done) => canon(fn.out) = fn.out

\* C20 as stated: one more substitution pass over env leaves the value
\* Mapper._subst returned as it is.
C20_SubstFixedPoint ==
    (fn.name = "_subst" /\ fn.done) => SubstOnce(fn.out, fn.args[2]) = fn.out

\* The paths of the nodes and of the edge endpoints of predicted_graph.yaml.
OutPaths ==
    Range(yaml.nodes) \cup {yaml.edges[j].src : j \in 1..Len(yaml.edges)}
                      \cup {yaml.edges[j].dst : j \in 1..Len(yaml.edges)}

\* Every path of the output is in lower case.
Folded == \A n \in OutPaths : n = Lower(n)

\* Every path of the output that names a file of the bundle is written as the
\* file is named.
CaseKept ==
    \A n \in OutPaths : \A i \in 1..Len(B.files) :
        Lower(n) = Lower(B.files[i].path) => n = B.files[i].path

Written == pc \in {"exported", "scan_exported"}

\* C12 as stated: the output is in lower case when the platform of meta.json
\* is "windows", and keeps the case of every path otherwise.
C12_FoldIffPlatformIsWindows ==
    Written =>
        IF B.meta.kind = "obj" /\ B.meta.platform = m_windows THEN Folded ELSE CaseKept

\* C12 amended: the platform of meta.json is compared without regard to
\* case.  The output is in lower case when it reads "windows" in any case;
\* otherwise, and when meta.json is missing or cannot be parsed, the case of
\* every path is kept.
C12_FoldIffPlatformReadsWindows ==
    Written =>
        IF B.meta.kind = "obj" /\ Lower(B.meta.platform) = m_windows
        THEN Folded ELSE CaseKept

\* An export of a bundle whose meta.json reads "Windows": a file named with
\* capitals is written in lower case, as a node and as the source of an edge.
C12_Witness ==
    /\ pc = "exported"
    /\ B.meta = MetaPlatform(m_Windows)
    /\ \E i \in 1..Len(B.files) :
          /\ B.files[i].path # Lower(B.files[i].path)
          /\ Lower(B.files[i].path) \in Range(yaml.nodes)
          /\ \E j \in 1..Len(yaml.edges) : yaml.edges[j].src = Lower(B.files[i].path)

\* The place of a file in the order Reader.run follows.
PlaceOf(path) == CHOOSE i \in 1..Len(order) : order[i].path = path

\* a comes no later than b: worklist files first, then the higher priority,
\* then the path that compares lower.
NoLater(a, b) ==
    LET wa == a.path \in Range(manifest.worklist)
        wb == b.path \in Range(manifest.worklist)
    IN \/ wa /\ ~wb
       \/ wa = wb /\ a.priority > b.priority
       \/ wa = wb /\ a.priority = b.priority /\ (a.path = b.path \/ LexLess(a.path, b.path))

\* The number of files Reader.run may peek.
FilesAllowed ==
    IF budget.max_files > 0 /\ budget.max_files < Len(manifest.files)
    THEN budget.max_files ELSE Len(manifest.files)

\* C13: Reader.run takes the files of the manifest in the order worklist
\* first, then priority descending, then path; with max_files positive it
\* takes the first max_files of that order and no other file; the files and
\* the call sites of the observation batch follow that order.
C13_ReaderOrder ==
    /\ Range(order) \subseteq Range(manifest.files)
    /\ Len(order) = FilesAllowed
    /\ \A i, j \in 1..Len(order) : i < j => order[i] # order[j] /\ NoLater(order[i], order[j])
    /\ \A i \in 1..Len(order) : \A f \in Range(manifest.files) \ Range(order) :
          NoLater(order[i], f)
    /\ rIdx \in 1..(Len(order) + 1)
    /\ obs.files = [i \in 1..(rIdx - 1) |-> order[i].path]
    /\ \A i \in 1..Len(obs.call_sites) : obs.call_sites[i].src \in Range(obs.files)
    /\ \A i, j \in 1..Len(obs.call_sites) :
          i < j => PlaceOf(obs.call_sites[i].src) <= PlaceOf(obs.call_sites[j].src)

\* All files are read; a file came before one whose path compares lower, and
\* the call sites of the two are in the batch in the order of the files.
C13_Witness ==
    /\ rIdx > Len(order)
    /\ \E a, b \in 1..Len(order) :
          /\ a < b
          /\ LexLess(order[b].path, order[a].path)
          /\ \E i, j \in 1..Len(obs.call_sites) :
                /\ i < j
                /\ obs.call_sites[i].src = order[a].path
                /\ obs.call_sites[j].src = order[b].path

\* The edges a step added to the graph of Mapper.run.
NewEdges == {g'.edges[i] : i \in (Len(g.edges) + 1)..Len(g'.edges)}

\* The targets in hand when the call site is closed: those of the LLM
\* passes, or the substituted raw target when they left none.
InHand ==
    IF targets # <<>> THEN targets ELSE << _subst(CurrentSite.raw, CurrentEnv) >>

\* Every target in hand is in the allow-list and has its edge from the call
\* site at hand.
SiteResolved ==
    \A i \in 1..Len(InHand) :
        /\ InAllowed(InHand[i], allowed, Windowsish)
        /\ \E e \in Range(g'.edges) :
              /\ e.src = _canon_case(CurrentSite.src, Windowsish)
              /\ e.dst = _canon_case(InHand[i], Windowsish)
              /\ e.kind = CurrentSite.kind
              /\ e.resolved

\* The call site at hand has one more unresolved entry and no edge more.
SiteUnresolved ==
    /\ Len(unresolved') = Len(unresolved) + 1
    /\ unresolved'[Len(unresolved')].raw_target = CurrentSite.raw
    /\ SubSeq(unresolved', 1, Len(unresolved)) = unresolved
    /\ g'.edges = g.edges

\* C14: a dynamic call site goes through LLM pass 1, then pass 2 only when
\* pass 1 left no allowed target, then the heuristic only when the targets
\* are still empty; an LLM pass writes nothing whatever the reply, errors
\* included, and hands the site on; closing the site either accepts allowed
\* targets or appends one unresolved entry, never both and never neither.
C14_StagesInOrder ==
    [][/\ (pc = "site" /\ pc' \in {"pass2", "accept"})
             => /\ CurrentSite.dynamic
                /\ pc' = "pass2" => targets' = <<>>
       /\ (pc = "site" /\ sIdx <= Len(obs.call_sites) /\ CurrentSite.dynamic)
             => pc' \in {"pass2", "accept"}
       /\ pc = "pass2" => targets = <<>> /\ pc' = "accept"
       /\ pc' \in {"pass2", "accept"}
             => /\ pc \in {"site", "pass2"}
                /\ <<g, unresolved, seen, sIdx>>' = <<g, unresolved, seen, sIdx>>
                /\ \A i \in 1..Len(targets') : InAllowed(targets'[i], allowed, Windowsish)
       /\ pc = "accept"
             => /\ pc' = "site" /\ sIdx' = sIdx + 1
                /\ targets # <<>>
                      => \A e \in NewEdges :
                            /\ e.reason = why
                            /\ \E i \in 1..Len(targets) :
                                  e.dst = _canon_case(targets[i], Windowsish)
                /\ targets = <<>>
                      => \A e \in NewEdges :
                            /\ e.reason = "local var substitution"
                            /\ e.dst = _canon_case(_subst(CurrentSite.raw, CurrentEnv),
                                                   Windowsish)
                /\ IF unresolved' = unresolved
                   THEN SiteResolved
                   ELSE SiteUnresolved /\ targets = <<>> /\ ~SiteResolved]_vars

\* With a live provider, a dynamic call site went through both LLM passes
\* and was resolved by the heuristic.
C14_Witness ==
    /\ pc = "site"
    /\ provider = "openai"
    /\ llmCalls >= 2
    /\ \E i \in 1..Len(g.edges) :
          g.edges[i].dynamic /\ g.edges[i].reason = "local var substitution"

\* The first Reader -> Mapper pass is over.
FirstPassOver == MapperDone /\ loopsLeft = budget.max_loops

\* The manifest file f is the source of an entry of the unresolved list u.
SourceOf(f, u) ==
    \E i \in 1..Len(u) : u[i].src = _canon_case(_norm_path(f.path), Windowsish)

\* C15 as stated: after the first pass Reader and Mapper run again exactly
\* when max_loops is positive and the unresolved list is not empty; in that
\* re-run every manifest file that is the source of an unresolved entry is
\* read with the peek window (0, 8192) and priority 200; the re-run comes
\* before the export and at most once in a run.
C15_ReLoopPromotesSources ==
    [][/\ (pc = "site" /\ pc' = "reading")
             => /\ FirstPassOver
                /\ budget.max_loops > 0 /\ unresolved # <<>>
                /\ yaml' = yaml
                /\ \A f \in Range(manifest.files) :
                      SourceOf(f, unresolved)
                         => [f EXCEPT !.peek = PeekPromoted, !.priority = PrioPromoted]
                               \in Range(order')
       /\ (pc = "site" /\ pc' = "exported")
             => ~(FirstPassOver /\ budget.max_loops > 0 /\ unresolved # <<>>)]_vars

\* C19 as stated: one more expansion pass with the same env and loop
\* variables leaves the value Reader._expand_cmd_value returned as it is.
C19_ExpandFixedPoint ==
    (fn.name = "_expand_cmd_value" /\ fn.done)
        => ExpandOnce(fn.out, fn.args[2], fn.args[3]) = fn.out

(***************************************************************************)
(* C16: for every source file, env_for binds each name assigned in the     *)
(* scope of the file to the value of its highest-precedence local          *)
(* assignment, the first seen among equals, and no later step of env_for   *)
(* (the imports, the Join-Path evaluation of PowerShell) puts a value of   *)
(* lower precedence in its place.                                          *)
(***************************************************************************)
\* The Mapper is at work: the Observation Batch and allowed are complete
MapperAtWork == pc \in {"site", "pass2", "accept"}

\* The local pairs of a name in the Observation Batch, in their order
LocalPairs(scope, name) ==
    SelectSeq(obs.env_vars, LAMBDA v : v.scope = scope /\ v.name = name)

\* The value of the highest-precedence local pair, the first seen among equals
LocalBest(scope, name) == SortByPrec(LocalPairs(scope, name))[1].value

EnvForFile(src) == env_for(obs, base, src, allowed, Windowsish, FileOf(src))

C16_LocalPrecedence ==
    MapperAtWork =>
        \A i \in 1..Len(obs.env_vars) :
            GetOr(EnvForFile(obs.env_vars[i].scope), obs.env_vars[i].name, <<>>)
                = LocalBest(obs.env_vars[i].scope, obs.env_vars[i].name)

(***************************************************************************)
(* C17: the imports of env_for from dot-sourced files are one hop and      *)
(* missing-only: a name bound locally is not overridden by an import, the  *)
(* variables of a file that only a sourced file sources are not imported,  *)
(* env_for ends when files source each other in a cycle, and what it       *)
(* returns does not depend on the order the sourced files are visited in.  *)
(***************************************************************************)
Reversed(s) == [i \in 1..Len(s) |-> s[Len(s) + 1 - i]]
Bindings(env) == {<<env[i].name, env[i].value>> : i \in 1..Len(env)}
ScopesOf(src) == ImportScopes(obs, base, src, allowed, Windowsish)
LocalEnv(src) == EnvVisiting(obs, src, <<>>)
ImportedEnv(src) == EnvImported(obs, base, src, allowed, Windowsish)

\* The local bindings of src are in the result as they are
LocalKept(src) == Bindings(LocalEnv(src)) \subseteq Bindings(ImportedEnv(src))

\* Every binding of the result is a pair of src or of a file src sources
OneHop(src) ==
    \A b \in Bindings(ImportedEnv(src)) :
        \E i \in 1..Len(obs.env_vars) :
            /\ obs.env_vars[i].name = b[1]
            /\ obs.env_vars[i].value = b[2]
            /\ \/ obs.env_vars[i].scope = src
               \/ \E k \in 1..Len(ScopesOf(src)) : obs.env_vars[i].scope = ScopesOf(src)[k]

\* The sourced files visited last to first give the same bindings
AnyOrder(src) ==
    Bindings(EnvVisiting(obs, src, Reversed(ScopesOf(src)))) = Bindings(ImportedEnv(src))

C17_ImportsOneHopMissingOnly ==
    MapperAtWork =>
        \A k \in 1..Len(obs.files) :
            LocalKept(obs.files[k]) /\ OneHop(obs.files[k]) /\ AnyOrder(obs.files[k])

\* The parts of C17 that do not speak of the order: they hold.
C17_ImportsButForOrder ==
    MapperAtWork =>
        \A k \in 1..Len(obs.files) : LocalKept(obs.files[k]) /\ OneHop(obs.files[k])

\* Two files that source each other are read, one of them imports, and a
\* variable of a file the one sources is not bound for the other.
C17_CycleSeen ==
    /\ MapperAtWork
    /\ \E j, k \in 1..Len(obs.files) :
          /\ \E i \in 1..Len(ScopesOf(obs.files[j])) : ScopesOf(obs.files[j])[i] = obs.files[k]
          /\ \E i \in 1..Len(ScopesOf(obs.files[k])) : ScopesOf(obs.files[k])[i] = obs.files[j]
          /\ Bindings(LocalEnv(obs.files[j])) # Bindings(ImportedEnv(obs.files[j]))
          /\ \E v \in 1..Len(obs.env_vars) :
                /\ \E i \in 1..Len(ScopesOf(obs.files[j])) :
                      ScopesOf(obs.files[j])[i] = obs.env_vars[v].scope
                /\ GetOr(ImportedEnv(obs.files[k]), obs.env_vars[v].name, <<>>) = <<>>

(***************************************************************************)
(* C18: a CMD file is handled top to bottom: a set affects the expansion   *)
(* and the resolution of call sites on later lines of the same file only;  *)
(* an assignment after a call site has no part in how the call site is     *)
(* resolved, and the assignments of one CMD file none in another file.     *)
(***************************************************************************)
\* The place of the k-th call site among the call sites of its file
PlaceInFile(k) ==
    Cardinality({j \in 1..k : obs.call_sites[j].src = obs.call_sites[k].src})

\* The lines of the file before the line of its m-th call site
LinesBefore(lines, src, m) ==
    Take(lines, MaxOf({n \in 0..Len(lines) :
                          Len(ReadCmd(src, Take(lines, n)).call_sites) < m}))

\* The env of the local pairs the Reader has from the lines before the k-th
\* call site
EnvBefore(k) ==
    FillEnv(<<>>,
            SortByPrec(ReadCmd(obs.call_sites[k].src,
                               LinesBefore(FileLines(FileOf(obs.call_sites[k].src)),
                                           obs.call_sites[k].src, PlaceInFile(k))).env_vars))

C18_CmdTopToBottom ==
    MapperAtWork =>
        \A k \in 1..Len(obs.call_sites) :
            _lang(obs.call_sites[k].src) = "cmd" =>
                Heuristic(obs.call_sites[k], EnvForFile(obs.call_sites[k].src), allowed)
                    = Heuristic(obs.call_sites[k], EnvBefore(k), allowed)

(***************************************************************************)
(* C21: under the policy "participating" the exported node list is the set *)
(* of the nodes some edge refers to together with the source of every      *)
(* unresolved entry: every unresolved source is in the list, whatever the  *)
(* platform of the bundle, and no other node without an edge is.           *)
(***************************************************************************)
\* The nodes predicted_graph.yaml lists, and the endpoints of its edges
YamlNodes == {yaml.nodes[i] : i \in 1..Len(yaml.nodes)}
YamlEnds ==
    {yaml.edges[i].src : i \in 1..Len(yaml.edges)}
    \cup {yaml.edges[i].dst : i \in 1..Len(yaml.edges)}

\* The sources of the unresolved entries, as the export spells a path
UnresolvedSources ==
    {_canon_rel(unresolved[i].src, Windowsish) : i \in 1..Len(unresolved)}

C21_ParticipatingNodes ==
    pc = "exported" => YamlNodes = YamlEnds \cup UnresolvedSources

(***************************************************************************)
(* C22: without a static baseline a non-dynamic call site is resolved by   *)
(* trying, in this order, the local-env substitution of the raw target,    *)
(* the raw target, and the caller-relative form of each against the        *)
(* allow-list; the first hit gives exactly one edge with dynamic = false,  *)
(* resolved = true, confidence 0.9 and reason "static-direct"; no hit      *)
(* gives no edge and one unresolved entry "non-dynamic-unresolved".        *)
(***************************************************************************)
DirectDone == fn.name = "StaticDirect" /\ fn.done
DirectSub == _subst(fn.args[1].raw, fn.args[2])
DirectRaw == _norm_path(fn.args[1].raw)

\* The first target of ts the allow-list has, <<>> when it has none
FirstAllowed(ts, A, windowsish) ==
    IF \E i \in 1..Len(ts) : InAllowed(ts[i], A, windowsish)
    THEN ts[MinOf({i \in 1..Len(ts) : InAllowed(ts[i], A, windowsish)})]
    ELSE <<>>

\* The result for the hit: one edge with the reason given, or one unresolved
\* entry
DirectResult(hit, reason) ==
    IF hit # <<>>
    THEN /\ fn.out.g.edges =
               << Edge(_canon_case(fn.args[1].src, fn.args[4]), _canon_case(hit, fn.args[4]),
                       fn.args[1].kind, fn.args[1].cmd, FALSE, TRUE, 900, reason) >>
         /\ fn.out.unresolved = <<>>
    ELSE /\ fn.out.g.edges = <<>>
         /\ fn.out.unresolved =
               << [src |-> _canon_case(fn.args[1].src, fn.args[4]),
                   raw_target |-> fn.args[1].raw, reason |-> "non-dynamic-unresolved"] >>

\* As stated: substitution, raw target, then the caller-relative forms
C22_DirectOrderAsStated ==
    DirectDone =>
        DirectResult(FirstAllowed(<<DirectSub, DirectRaw, RelTo(fn.args[1].src, DirectSub),
                                    RelTo(fn.args[1].src, DirectRaw)>>,
                                  fn.args[3], fn.args[4]),
                     "static-direct")

\* C22 as the code has it: the substitution and its caller-relative form,
\* then the raw target and its caller-relative form; the reason is
\* "static-direct in 2R/4R".
C22_DirectOrder ==
    DirectDone =>
        DirectResult(FirstAllowed(<<DirectSub, RelTo(fn.args[1].src, DirectSub), DirectRaw,
                                    RelTo(fn.args[1].src, DirectRaw)>>,
                                  fn.args[3], fn.args[4]),
                     "static-direct in 2R/4R")

\* The caller-relative form of the substitution is taken although the
\* allow-list has the raw target
C22_Witness ==
    /\ DirectDone
    /\ DirectSub # DirectRaw
    /\ ~InAllowed(DirectSub, fn.args[3], fn.args[4])
    /\ InAllowed(DirectRaw, fn.args[3], fn.args[4])
    /\ Len(fn.out.g.edges) = 1
    /\ fn.out.g.edges[1].dst = RelTo(fn.args[1].src, DirectSub)

(***************************************************************************)
(* C23: every edge the resolution of a dynamic call site adds carries the  *)
(* src of the call site (in the spelling of the platform), its kind and    *)
(* its command, dynamic = true, resolved = true, confidence 0.7 and as     *)
(* reason the rationale of the LLM or "local var substitution"; the edges  *)
(* are de-duplicated by (src, dst, kind) at insertion, so the graph of the *)
(* Mapper never holds two edges with the same (src, dst, kind).            *)
(***************************************************************************)
EdgeKey(e) == <<e.src, e.dst, e.kind>>

\* No two edges of the graph have the same (src, dst, kind)
KeysDiffer(graph) ==
    \A i, j \in 1..Len(graph.edges) :
        i < j => EdgeKey(graph.edges[i]) # EdgeKey(graph.edges[j])

\* The edges the step added are edges of the call site at hand
EdgesOfSite ==
    \A e \in NewEdges :
        /\ e.src = _canon_case(CurrentSite.src, Windowsish)
        /\ e.kind = CurrentSite.kind
        /\ e.command = CurrentSite.cmd
        /\ e.dynamic /\ e.resolved /\ e.confidence = 700
        /\ e.reason \in {why, "local var substitution"}

C23_DynamicEdgesOncePerKey ==
    [][/\ pc = "accept" => EdgesOfSite
       /\ pc' \in {"site", "pass2", "accept"} => KeysDiffer(g')]_vars

\* The parts of C23 on the edges of a dynamic call site alone: they hold, and
\* no two dynamic edges of the graph have the same key.
C23_DynamicEdgesAlone ==
    [][/\ pc = "accept" => EdgesOfSite
       /\ pc' \in {"site", "pass2", "accept"}
             => KeysDiffer([g' EXCEPT !.edges = SelectSeq(@, LAMBDA e : e.dynamic)])]_vars

(***************************************************************************)
(* C24: the call sites are independent within the Mapper: the call sites   *)
(* of the Observation Batch processed in any order through the insertion   *)
(* that de-duplicates by (src, dst, kind) yield the same set of edges, all *)
(* fields equal, and the same unresolved entries as processed in the order *)
(* of the batch.                                                           *)
(***************************************************************************)
\* The body of the call-site loop for one call site, the LLM giving no target
SiteStep(st, cs) ==
    LET env == env_for(obs, base, cs.src, allowed, Windowsish, FileOf(cs.src))
    IN IF ~cs.dynamic
       THEN IF has_static_baseline
            THEN [st EXCEPT !.g = add_node(@, cs.src)]
            ELSE LET r == StaticDirect(st.g, st.unresolved, cs, env, allowed, Windowsish)
                 IN [st EXCEPT !.g = r.g, !.unresolved = r.unresolved]
       ELSE AcceptSite(st, cs, <<>>, "", env, allowed, Windowsish)

\* The call-site loop over the call sites in the order given
RECURSIVE SiteLoop(_, _)
SiteLoop(st, sites) ==
    IF sites = <<>> THEN st ELSE SiteLoop(SiteStep(st, sites[1]), Drop(sites, 1))

\* The state of Mapper.run before the call-site loop
LoopStart == [g |-> g, unresolved |-> unresolved, seen |-> seen]

InOrder(sites, f) == [i \in 1..Len(sites) |-> sites[f[i]]]

SameOutcome(s, t) ==
    /\ Range(s.g.edges) = Range(t.g.edges)
    /\ Range(s.unresolved) = Range(t.unresolved)

BeforeSites == pc = "site" /\ sIdx = 1

C24_AnyOrderSameOutcome ==
    BeforeSites =>
        \A f \in Orders(1..Len(obs.call_sites)) :
            SameOutcome(SiteLoop(LoopStart, InOrder(obs.call_sites, f)),
                        SiteLoop(LoopStart, obs.call_sites))

\* The loop above is the loop of the actions: with the LLM disabled the
\* call sites done so far have given the graph, the unresolved entries and
\* the keys seen that the loop gives from the start of Mapper.run
LoopAsStepped ==
    pc = "site" /\ provider = "disabled"
    => SiteLoop([g |-> CarryOver(EmptyGraph, base.edges, allowed, Windowsish),
                 unresolved |-> <<>>, seen |-> {}],
                SubSeq(obs.call_sites, 1, sIdx - 1))
       = [g |-> g, unresolved |-> unresolved, seen |-> seen]

(***************************************************************************)
(* C25: the heuristic fallback accepts the substituted target if and only  *)
(* if it differs from the canonical raw target and is in the allow-list;   *)
(* when it accepts, that one target is the result of the site, with the    *)
(* reason "local var substitution"; when the substitution leaves the raw   *)
(* target unchanged there is no edge, even if the raw target is a file of  *)
(* the allow-list.                                                         *)
(***************************************************************************)
FallbackDone == pc = "fn" /\ fn.name = "AcceptSite" /\ fn.done
FallbackSub == _subst(fn.args[1].raw, fn.args[2])
FallbackRaw == _norm_path(fn.args[1].raw)
FallbackAccepts == FallbackSub # FallbackRaw /\ FallbackSub \in fn.args[3]

C25_FallbackIffDiffersAndAllowed ==
    FallbackDone =>
        LET cs == fn.args[1]
            w == fn.args[4]
        IN IF FallbackAccepts
           THEN /\ fn.out.g.edges =
                      << Edge(_canon_case(cs.src, w), _canon_case(FallbackSub, w),
                              cs.kind, cs.cmd, TRUE, TRUE, 700,
                              "local var substitution") >>
                /\ fn.out.unresolved = <<>>
           ELSE /\ fn.out.g.edges = <<>>
                /\ fn.out.unresolved =
                      << [src |-> _canon_case(cs.src, w), raw_target |-> cs.raw,
                          reason |-> "no-targets-from-LLM"] >>

\* A fallback that left a raw target of the allow-list without edge
C25_Witness ==
    /\ FallbackDone
    /\ FallbackSub = FallbackRaw
    /\ FallbackRaw \in fn.args[3]
    /\ fn.out.g.edges = <<>>

\* A fallback that accepted
C25_WitnessAccepts == FallbackDone /\ FallbackAccepts /\ Len(fn.out.g.edges) = 1

(***************************************************************************)
(* C26: Planner.run, Reader.run and Mapper.run leave the static baseline   *)
(* graph as it is, its node set and every field of every edge, and the     *)
(* allow-list is not modified after Mapper.run has built it.               *)
(***************************************************************************)
\* A step of the call-site loop of Mapper.run
LoopStep ==
    pc \in {"site", "pass2", "accept"} /\ pc' \in {"site", "pass2", "accept"}

\* A step of the Planner, of the Reader or of the Mapper
PhaseStep ==
    \/ pc = "scanned" /\ pc' \in {"reading", "planner_crashed"}
    \/ pc = "reading" /\ pc' \in {"reading", "site"}
    \/ LoopStep

C26_BaselineAndAllowListKept ==
    [][/\ PhaseStep => base' = base
       /\ LoopStep => allowed' = allowed]_vars

\* The Mapper is done, it has built a graph, and the baseline holds a static
\* edge its carry-over has dropped
C26_Witness ==
    /\ MapperDone
    /\ g.edges # <<>>
    /\ allowed # {}
    /\ \E i \in 1..Len(base.edges) : ~base.edges[i].dynamic /\ ~KeptStatic(i)

(***************************************************************************)
(* C27: every call site of the Observation Batch is accounted for in the   *)
(* result of the Mapper, with or without a static baseline: there is an    *)
(* edge with the src (in the spelling of the platform) and the kind of the *)
(* call site, or an unresolved entry with its src and its raw target.      *)
(***************************************************************************)
HasEdge(cs) ==
    \E i \in 1..Len(g.edges) :
        /\ g.edges[i].src = _canon_case(cs.src, Windowsish)
        /\ g.edges[i].kind = cs.kind

HasEntry(cs) ==
    \E i \in 1..Len(unresolved) :
        /\ unresolved[i].src = _canon_case(cs.src, Windowsish)
        /\ unresolved[i].raw_target = cs.raw

C27_EverySiteAccounted ==
    MapperDone => \A i \in 1..Len(obs.call_sites) :
                      HasEdge(obs.call_sites[i]) \/ HasEntry(obs.call_sites[i])

\* C27 for the call sites the Mapper resolves itself: the dynamic ones, and
\* all of them when there is no static baseline
C27_ResolvedSitesAccounted ==
    MapperDone => \A i \in 1..Len(obs.call_sites) :
                      (obs.call_sites[i].dynamic \/ ~has_static_baseline)
                      => HasEdge(obs.call_sites[i]) \/ HasEntry(obs.call_sites[i])

(***************************************************************************)
(* C28: the re-loop is monotone: the promotion of the sources of the       *)
(* unresolved entries never lowers the priority of a file, every file read *)
(* in the first pass of the Reader is read again in the re-loop under the  *)
(* same max_files budget, and with the LLM disabled every edge of the      *)
(* first pass of the Mapper is in the final graph.                         *)
(***************************************************************************)
ReLoopStep == pc = "site" /\ pc' = "reading"

PathsOf(files) == {files[i].path : i \in 1..Len(files)}

\* The promotion never lowers a priority
PromotionRaises ==
    \A i \in 1..Len(manifest.files) :
        manifest'.files[i].priority >= manifest.files[i].priority

\* The files read in the first pass are read again, within the same budget
ReadAgain ==
    /\ PathsOf(order) \subseteq PathsOf(order')
    /\ budget' = budget
    /\ budget.max_files > 0 => Len(order') <= budget.max_files

\* The Mapper starts its second pass, the LLM disabled
SecondPassStep ==
    /\ pc = "reading" /\ pc' = "site"
    /\ loopsLeft < budget.max_loops
    /\ provider = "disabled"

\* The edges in hand, those of the first pass, are edges of the graph the
\* second pass ends with
FirstPassEdgesKept ==
    Range(g.edges) \subseteq
        Range(SiteLoop([g |-> g', unresolved |-> <<>>, seen |-> {}],
                       obs.call_sites).g.edges)

C28_ReLoopMonotone ==
    [][/\ ReLoopStep => PromotionRaises /\ ReadAgain
       /\ SecondPassStep => FirstPassEdgesKept]_vars

\* The parts of C28 one at a time
C28_PromotionRaises == [][ReLoopStep => PromotionRaises]_vars
C28_ReadAgain == [][ReLoopStep => ReadAgain]_vars
C28_FirstPassEdgesKept == [][SecondPassStep => FirstPassEdgesKept]_vars

(***************************************************************************)
(* C29: the hints of the LLM Reader cannot change a parsed fact: when a    *)
(* scope has a parsed assignment of a name (precedence 10), env_for of the *)
(* scope returns the parsed value for the name whatever the hints are      *)
(* (precedence 5), and a hint whose value does not match [A-Za-z0-9_./-]+  *)
(* is not in the Observation Batch.                                        *)
(***************************************************************************)
\* The value of the first parsed assignment of the name in the scope
ParsedFirst(scope, name) ==
    SelectSeq(obs.env_vars,
              LAMBDA v : v.scope = scope /\ v.name = name /\ v.prec = PrecLocal)[1].value

\* The Observation Batch without the hints
HintFree(o) == [o EXCEPT !.env_vars = SelectSeq(@, LAMBDA v : v.prec # PrecHint)]

\* The hints of the Observation Batch have values of [A-Za-z0-9_./-]+
HintsAreSafe ==
    \A i \in 1..Len(obs.env_vars) :
        obs.env_vars[i].prec = PrecHint
        => /\ obs.env_vars[i].value # <<>>
           /\ \A k \in 1..Len(obs.env_vars[i].value) : IsPathCh(obs.env_vars[i].value[k])

C29_ParsedBeatsHints ==
    MapperAtWork =>
        /\ \A i \in 1..Len(obs.env_vars) :
              obs.env_vars[i].prec = PrecLocal
              => GetOr(EnvForFile(obs.env_vars[i].scope), obs.env_vars[i].name, <<>>)
                    = ParsedFirst(obs.env_vars[i].scope, obs.env_vars[i].name)
        /\ HintsAreSafe

\* C29 as non-interference: for a name with a parsed assignment env_for
\* returns what it returns on the Observation Batch without the hints
C29_HintsDoNotInterfere ==
    MapperAtWork =>
        /\ \A i \in 1..Len(obs.env_vars) :
              obs.env_vars[i].prec = PrecLocal
              => GetOr(EnvForFile(obs.env_vars[i].scope), obs.env_vars[i].name, <<>>)
                    = GetOr(env_for(HintFree(obs), base, obs.env_vars[i].scope, allowed,
                                    Windowsish, FileOf(obs.env_vars[i].scope)),
                            obs.env_vars[i].name, <<>>)
        /\ HintsAreSafe

\* A scope with a parsed assignment and a hint of another value for one name
C29_Witness ==
    /\ MapperAtWork
    /\ \E i, j \in 1..Len(obs.env_vars) :
          /\ obs.env_vars[i].prec = PrecLocal
          /\ obs.env_vars[j].prec = PrecHint
          /\ obs.env_vars[i].scope = obs.env_vars[j].scope
          /\ obs.env_vars[i].name = obs.env_vars[j].name
          /\ obs.env_vars[i].value # obs.env_vars[j].value

(***************************************************************************)
(* C30: on a Windows bundle every resolution stage uses the same           *)
(* case-insensitive test of the allow-list: the heuristic substitution     *)
(* fallback accepts a candidate exactly when the candidate would be        *)
(* accepted as a target of the LLM or by the direct resolution.            *)
(***************************************************************************)
\* The candidate is kept by an LLM pass that proposes it
LlmAccepts(t, A, windowsish) ==
    MapReply(Response("obj", <<t>>, ""), <<>>, "", A, windowsish).targets # <<>>

\* The candidate as it is resolves in the non-dynamic branch
DirectAccepts(t, A, windowsish) ==
    SelectSeq(<<t>>, LAMBDA x : InAllowed(x, A, windowsish)) # <<>>

C30_SameTestEveryStage ==
    (FallbackDone /\ fn.args[4] /\ FallbackSub # FallbackRaw) =>
        /\ fn.out.g.edges # <<>> <=> LlmAccepts(FallbackSub, fn.args[3], TRUE)
        /\ fn.out.g.edges # <<>> <=> DirectAccepts(FallbackSub, fn.args[3], TRUE)

====
